---------------------------- MODULE Spec2Model ----------------------------
(***************************************************************************)
(* Edge-node cloud synchronisation of fly-print-edge: the OAuth2 token     *)
(* cache (cloud_auth.py), the reconnecting WebSocket channel and the       *)
(* print-job pipeline (cloud_websocket_client.py), the heartbeat service   *)
(* (cloud_heartbeat_service.py) and the printer status reporter            *)
(* (cloud_service.py).  Every component has its own next-state relation    *)
(* and specification over the shared variables; the other components'      *)
(* variables stay as constructed.                                          *)
(***************************************************************************)
EXTENDS Integers, Sequences, FiniteSets, TLC

(***************************************************************************)
(* Bounds of the model.                                                    *)
(***************************************************************************)
\* the wall clock advances in steps of TickSeconds, at most MaxTicks times
MaxTicks == 3
TickSeconds == 100
\* threads that call get_access_token() concurrently
MaxCallers == 2
\* token requests (POSTs to the auth endpoint) counted between two crossings
\* of the refresh margin
MaxRequests == 2
\* heartbeat loop threads HeartbeatService.start() may create
MaxHbLoops == 1
\* no heartbeat attempt begins once the failure counter has reached MaxHbCount
MaxHbCount == 4
\* reconnect loop threads CloudWebSocketClient.start() may create
MaxWsLoops == 2
\* print_job messages handed to handle_print_job
MaxJobs == 1
\* managed printers, and the longest print queue the backend shows
MaxPrinters == 2
MaxQueue == 1
\* inbound frames the channel receives in a run
MaxFrames == 2
\* print jobs whose downloaded files are followed
MaxDownloads == 2

(***************************************************************************)
(* Program constants.                                                      *)
(***************************************************************************)
\* timedelta(minutes=5), in seconds
RefreshMarginSeconds == 300
\* token_data.get('expires_in', 3600)
DefaultExpiresIn == 3600
\* self.token_expires_at = None
NoExpiry == -1
\* self.websocket = None
NoWebsocket == 0
\* self.websocket refers to a connection that has ended
ClosedWebsocket == -1
\* last_info.get("queue_length") of a printer that is not in the cache
NoQueueLength == -1
\* no refresh that is still running has assigned access_token
NoCaller == 0
\* max_wait_time = 600 and check_interval = 10 of the completion monitor
max_wait_time == 600
check_interval == 10

VARIABLES
    now,                \* datetime.now(), seconds since construction
    access_token,       \* CloudAuthClient.access_token
    token_expires_at,   \* CloudAuthClient.token_expires_at
    authPc,             \* position of each caller inside get_access_token()
    authRet,            \* what the caller's last get_access_token() returned
    authRequests,       \* token requests since the start or the last crossing
    tokenFrom,          \* the caller whose running refresh assigned access_token
    sameResponse,       \* access_token and token_expires_at are of one response
    crossed,            \* the clock has crossed the margin of a cached token
    node_id,            \* CloudAPIClient.node_id
    hbRunning,          \* HeartbeatService.running
    heartbeat_failures, \* HeartbeatService.heartbeat_failures
    last_heartbeat_time,\* HeartbeatService.last_heartbeat_time
    hbPc,               \* position of each heartbeat thread
    hbPayload,          \* status_info built by the thread's _collect_status_info()
    hbRead,             \* the counter value a thread loaded for "+= 1"
    wsRunning,          \* CloudWebSocketClient.running
    websocket,          \* CloudWebSocketClient.websocket
    wsPc,               \* position of each _connect_and_listen() loop
    tokenAvail,         \* the auth server hands out usable tokens
    netUp,              \* the WebSocket endpoint accepts connections
    msgFate,            \* what send_message_sync() did with each message
    cloudGot,           \* how often the cloud received each message
    message_handlers,   \* CloudWebSocketClient.message_handlers (its keys)
    rxHandling,         \* the frame whose handler loop t is awaiting
    rxCount,            \* inbound frames received so far
    rxDid,              \* what loop t did with the frame it last received
    jobMsg,             \* the print_job message of each job
    jobPc,              \* position of the job in handler and monitor thread
    waited_time,        \* waited_time of the job's running monitor thread
    jobLog,             \* what was done for the job: calls made, how it ended
    jobUpdates,         \* the job_update messages handed to send_message_sync
    stRunning,          \* PrinterStatusReporter.running
    stPc,               \* position of the reporter's _monitor_loop thread
    stPos,              \* the printer the running cycle has come to
    last_status,        \* PrinterStatusReporter.last_status
    stSeen,             \* (cloud_status, queue length) last seen of each printer
    stEmitted,          \* the last printer_status emitted for each printer
    stDid,              \* what the cycle did at the printer it last came to
    stSent,             \* what send_message_sync did with the printer_status of that step
    current_status,     \* what get_printer_status() last returned to the cycle
    csPc,               \* position of the start() call of CloudService
    enabled,            \* CloudService.enabled
    printer_manager,    \* CloudService.printer_manager is there
    registered,         \* CloudService.registered
    websocket_client,   \* CloudService.websocket_client is there
    startRet,           \* what the last start() returned
    startLog,           \* the steps the running or last start() performed
    stopLog,            \* the components the last stop() stopped, in order
    stopRet,            \* how the last stop() ended
    lastOp,             \* the operation that took the last step
    lastCall,           \* start or stop of CloudService, whichever was called last
    dlPc,               \* where each print job with a downloadable file is
    dlName,             \* the file name at the end of the path of its file_url
    dlPath              \* the temporary file its download was written to

tokenVars == <<access_token, token_expires_at>>
authVars == <<access_token, token_expires_at, authPc, authRet>>
reqVars == <<authRequests, tokenFrom, sameResponse, crossed>>
hbVars == <<hbRunning, heartbeat_failures, last_heartbeat_time, hbPc, hbPayload,
            hbRead>>
wsVars == <<wsRunning, websocket, wsPc, tokenAvail, netUp, msgFate, cloudGot>>
rxVars == <<message_handlers, rxHandling, rxCount, rxDid>>
vars == <<now, access_token, token_expires_at, authPc, authRet, authRequests,
          tokenFrom, sameResponse, crossed, node_id,
          hbRunning, heartbeat_failures, last_heartbeat_time, hbPc, hbPayload,
          hbRead, wsRunning, websocket, wsPc, tokenAvail, netUp, msgFate,
          cloudGot, message_handlers, rxHandling, rxCount, rxDid, jobMsg, jobPc, waited_time, jobLog, jobUpdates, stRunning,
          stPc, stPos, last_status, stSeen, stEmitted, stDid, stSent, current_status,
          csPc, enabled,
          printer_manager, registered, websocket_client, startRet, startLog,
          stopLog, stopRet, lastOp, lastCall, dlPc, dlName, dlPath>>
jobVars == <<jobMsg, jobPc, waited_time, jobLog, jobUpdates>>
stVars == <<stRunning, stPc, stPos, last_status, stSeen, stEmitted, stDid, stSent,
            current_status>>
csVars == <<csPc, enabled, printer_manager, registered, websocket_client,
            startRet, startLog, stopLog, stopRet, lastOp, lastCall>>
dlVars == <<dlPc, dlName, dlPath>>

(***************************************************************************)
(* cloud_auth.py                                                           *)
(***************************************************************************)
AuthCallers == 1..MaxCallers
\* "None" is Python's None: no token
Tokens == {"tokA"}
\* access_token of a 200 response body; the key may be absent
BodyTokens == Tokens \cup {"None"}
\* expires_in of a 200 response body: a number of seconds, absent, or not a number
BodyExpiresIn == {60, 300, 600, -1, -2}
ExpiresInAbsent == -1
ExpiresInNotANumber == -2

\* what a caller got back: the token, how many seconds token_expires_at lay
\* ahead of now at the return, and whether it came from the cache or a refresh
NoRet == [tok |-> "None", left |-> 0, ein |-> 0, how |-> "none"]
FailedRet == [tok |-> "None", left |-> 0, ein |-> 0, how |-> "failed"]

\* faulty variant of is_token_valid (mutation test): the 5-minute margin is forgotten
is_token_valid_no_margin(tok, exp, t) ==
    /\ tok # "None"
    /\ exp # NoExpiry
    /\ t < exp

\* _is_token_valid
is_token_valid(tok, exp, t) ==
    /\ tok # "None"
    /\ exp # NoExpiry
    /\ t < exp - RefreshMarginSeconds

\* token_data.get('expires_in', 3600)
expires_in_of(e) == IF e = ExpiresInAbsent THEN DefaultExpiresIn ELSE e

\* datetime.now() + timedelta(seconds=expires_in)
new_expires_at(t, e) == t + expires_in_of(e)

\* a refresh that posts again after a failed request
after_failed_request_retry == "post"

\* _refresh_token, lines 65-71: a failed request ends the call (return None)
after_failed_request == "idle"

\* get_access_token, lines 24-27: the cached token, or on to _refresh_token
\* and its requests.post()
AuthCall(c) ==
    /\ authPc[c] = "idle"
    /\ IF is_token_valid(access_token, token_expires_at, now)
       THEN /\ authRet' = [authRet EXCEPT ![c] =
                    [tok |-> access_token, left |-> token_expires_at - now,
                     ein |-> 0, how |-> "cache"]]
            /\ UNCHANGED authPc
            /\ UNCHANGED authRequests
       ELSE /\ authRequests < MaxRequests
            /\ authPc' = [authPc EXCEPT ![c] = "post"]
            /\ authRet' = [authRet EXCEPT ![c] = NoRet]
            /\ authRequests' = authRequests + 1
    /\ UNCHANGED <<now, access_token, token_expires_at, tokenFrom, sameResponse,
                   crossed>>

\* _refresh_token, lines 49-58 and 65-71: the POST fails (non-200 or exception),
\* or answers 200 and access_token is assigned
AuthPost(c) ==
    /\ authPc[c] = "post"
    /\ \/ /\ authPc' = [authPc EXCEPT ![c] = after_failed_request]
          /\ authRet' = [authRet EXCEPT ![c] = FailedRet]
          /\ UNCHANGED <<access_token, tokenFrom, sameResponse>>
       \/ \E tok \in BodyTokens :
          /\ access_token' = tok
          /\ tokenFrom' = c
          /\ sameResponse' = FALSE
          /\ authPc' = [authPc EXCEPT ![c] = "assigned"]
          /\ UNCHANGED authRet
    /\ UNCHANGED <<now, token_expires_at, authRequests, crossed>>

\* _refresh_token, lines 59-64 and 69-71: token_expires_at is assigned and
\* self.access_token returned; timedelta raises on an expires_in that is no number
AuthSetExpiry(c) ==
    /\ authPc[c] = "assigned"
    /\ \E e \in BodyExpiresIn :
         IF e = ExpiresInNotANumber
         THEN /\ authRet' = [authRet EXCEPT ![c] = FailedRet]
              /\ UNCHANGED <<token_expires_at, sameResponse>>
         ELSE /\ token_expires_at' = new_expires_at(now, e)
              /\ sameResponse' = (tokenFrom = c)
              /\ authRet' = [authRet EXCEPT ![c] =
                     [tok |-> access_token,
                      left |-> new_expires_at(now, e) - now,
                      ein |-> expires_in_of(e),
                      how |-> IF access_token = "None" THEN "failed" ELSE "fresh"]]
    /\ tokenFrom' = IF tokenFrom = c THEN NoCaller ELSE tokenFrom
    /\ authPc' = [authPc EXCEPT ![c] = "idle"]
    /\ UNCHANGED <<now, access_token, authRequests, crossed>>

\* get_access_token() run to its return by one thread while no other thread is
\* inside it: tok is the token returned.  With avail the auth server answers
\* the refresh with 200, an access_token and a usable expires_in; without it
\* the request may also fail or the answer lack either
get_access_token_when(tok, avail) ==
    IF is_token_valid(access_token, token_expires_at, now)
    THEN /\ tok = access_token
         /\ UNCHANGED tokenVars
    ELSE \/ /\ ~avail
            /\ tok = "None"
            /\ UNCHANGED tokenVars
         \/ \E bt \in BodyTokens, e \in BodyExpiresIn :
            /\ avail => (bt # "None" /\ e # ExpiresInNotANumber)
            /\ access_token' = bt
            /\ IF e = ExpiresInNotANumber
               THEN /\ tok = "None"
                    /\ UNCHANGED token_expires_at
               ELSE /\ tok = bt
                    /\ token_expires_at' = new_expires_at(now, e)

\* get_access_token() against an auth server that may answer anything
get_access_token(tok) == get_access_token_when(tok, FALSE)

\* a header that is not in the dict
NoHeader == "absent"

\* the dicts of headers a request can be sent with
HeaderSets ==
    [Authorization : BodyTokens \cup {NoHeader},
     ContentType : {"application/json", NoHeader}]

\* the headers of a request sent with headers = {}
NoHeaders == [Authorization |-> NoHeader, ContentType |-> NoHeader]

\* a header set that has 'Bearer <token>' whatever get_access_token() gave
auth_headers_always(tok) ==
    [Authorization |-> tok, ContentType |-> "application/json"]

\* lines 76-81: the dict built from the token; Authorization holds the token
\* that follows 'Bearer '
auth_headers_of(tok) ==
    [Authorization |-> IF tok # "None" THEN tok ELSE NoHeader,
     ContentType |-> "application/json"]

\* get_auth_headers: tok is what its call of get_access_token() returned,
\* headers the dict it returns
get_auth_headers(tok, headers) ==
    /\ get_access_token_when(tok, tokenAvail)
    /\ headers = auth_headers_of(tok)

(***************************************************************************)
(* cloud_api_client.py, cloud_heartbeat_service.py                         *)
(***************************************************************************)
\* data.id of a registration response
NodeIds == {"n1", "n2"}
\* thread 0 is the caller of force_heartbeat(), the others are loop threads
HbLoops == 1..MaxHbLoops
HbThreads == 0..MaxHbLoops
\* psutil percentages: at the lower threshold, at the upper one, above both
Percentages == {70, 90, 95}
\* a payload without the three percentages
NoPercent == -1
\* the loads a heartbeat is collected under: all three figures at the lower
\* threshold, then one of them at the upper threshold or above it
LoadSamples ==
    {<<70, 70, 70>>, <<90, 70, 70>>, <<70, 90, 70>>, <<70, 70, 90>>,
     <<95, 70, 70>>, <<70, 70, 95>>}

\* _collect_status_info, lines 132-138: what it returns when it raised
FallbackPayload ==
    [status |-> "unknown", quality |-> 50, cpu_percent |-> NoPercent,
     memory_percent |-> NoPercent, disk_percent |-> NoPercent]
NoPayload ==
    [status |-> "none", quality |-> 0, cpu_percent |-> NoPercent,
     memory_percent |-> NoPercent, disk_percent |-> NoPercent]

\* faulty variant of connection_quality_of (mutation test): the last row of the
\* table is taken one failure late
connection_quality_late(f) ==
    IF f = 0 THEN 100
    ELSE IF f = 1 THEN 80
    ELSE IF f = 2 THEN 60
    ELSE IF f = 3 THEN 60
    ELSE 40

\* _collect_status_info, lines 110-118
connection_quality_of(f) ==
    IF f = 0 THEN 100
    ELSE IF f = 1 THEN 80
    ELSE IF f = 2 THEN 60
    ELSE 40

\* _collect_status_info, lines 102-108
load_status_of(cpu, mem, disk) ==
    IF cpu > 90 \/ mem > 90 \/ disk > 90 THEN "busy"
    ELSE IF cpu > 70 \/ mem > 70 THEN "moderate"
    ELSE "online"

\* register_edge_node: answered 200/201, node_id is data.id of the response;
\* otherwise node_id is left alone.  The request's headers are those of
\* get_auth_headers; the answer is the cloud's, whatever the headers were.
RegisterEdgeNode ==
    /\ \/ \E n \in NodeIds : node_id' = n
       \/ UNCHANGED node_id
    /\ UNCHANGED <<now, authVars, hbVars>>

\* HeartbeatService.start
HbStart ==
    /\ ~hbRunning
    /\ \E t \in HbLoops :
        /\ hbPc[t] = "none"
        /\ \A u \in HbLoops : u < t => hbPc[u] # "none"
        /\ hbPc' = [hbPc EXCEPT ![t] = "check"]
    /\ hbRunning' = TRUE
    /\ heartbeat_failures' = 0
    /\ UNCHANGED <<now, authVars, node_id, last_heartbeat_time, hbPayload, hbRead>>

\* HeartbeatService.stop: the join gives up after 5 seconds
HbStop ==
    /\ hbRunning' = FALSE
    /\ UNCHANGED <<now, authVars, node_id, heartbeat_failures, last_heartbeat_time,
                   hbPc, hbPayload, hbRead>>

\* _heartbeat_loop, line 46 (after the sleep of line 68, or on entry)
HbLoopCheck(t) ==
    /\ t \in HbLoops
    /\ hbPc[t] = "check"
    /\ hbPc' = [hbPc EXCEPT ![t] = IF hbRunning THEN "collect" ELSE "none"]
    /\ UNCHANGED <<now, authVars, node_id, hbRunning, heartbeat_failures,
                   last_heartbeat_time, hbPayload, hbRead>>

\* force_heartbeat is called
HbForce ==
    /\ hbPc[0] = "none"
    /\ hbPc' = [hbPc EXCEPT ![0] = "collect"]
    /\ UNCHANGED <<now, authVars, node_id, hbRunning, heartbeat_failures,
                   last_heartbeat_time, hbPayload, hbRead>>

\* the highest value the counter holds or a pending store is based on
HbHighest ==
    CHOOSE m \in {heartbeat_failures} \cup {hbRead[u] : u \in HbThreads} :
        \A n \in {heartbeat_failures} \cup {hbRead[u] : u \in HbThreads} : n <= m

\* _collect_status_info: the payload from the load and the failure counter, or
\* the fallback payload when psutil raises
HbCollect(t) ==
    /\ hbPc[t] = "collect"
    /\ HbHighest + Cardinality({u \in HbThreads : hbPc[u] \in {"post", "store"}})
           < MaxHbCount
    /\ \/ \E load \in LoadSamples :
            LET cpu == load[1]
                mem == load[2]
                disk == load[3]
            IN
            hbPayload' = [hbPayload EXCEPT ![t] =
                [status |-> load_status_of(cpu, mem, disk),
                 quality |-> connection_quality_of(heartbeat_failures),
                 cpu_percent |-> cpu, memory_percent |-> mem,
                 disk_percent |-> disk]]
       \/ hbPayload' = [hbPayload EXCEPT ![t] = FallbackPayload]
    /\ hbPc' = [hbPc EXCEPT ![t] = "post"]
    /\ UNCHANGED <<now, authVars, node_id, hbRunning, heartbeat_failures,
                   last_heartbeat_time, hbRead>>

\* where a thread goes on after its attempt: the loop sleeps and checks the flag
\* again, force_heartbeat returns
HbAfter(t) == IF t = 0 THEN "none" ELSE "check"

\* api_client.send_heartbeat and the success branch (lines 51-53, 175-178), or
\* the load of the counter for "heartbeat_failures += 1" (lines 55, 180).
\* The request's headers are those of get_auth_headers; the answer is the
\* cloud's, whatever the headers were.
HbPost(t) ==
    /\ hbPc[t] = "post"
    /\ hbPayload' = [hbPayload EXCEPT ![t] = NoPayload]
    /\ IF node_id = "None"
       THEN \* not registered: no request is made
            /\ hbRead' = [hbRead EXCEPT ![t] = heartbeat_failures]
            /\ hbPc' = [hbPc EXCEPT ![t] = "store"]
            /\ UNCHANGED <<heartbeat_failures, last_heartbeat_time>>
       ELSE /\ \/ \* the POST answers 200
                  /\ heartbeat_failures' = 0
                  /\ last_heartbeat_time' = now
                  /\ hbPc' = [hbPc EXCEPT ![t] = HbAfter(t)]
                  /\ UNCHANGED hbRead
               \/ \* the POST answers another status, or raises
                  /\ hbRead' = [hbRead EXCEPT ![t] = heartbeat_failures]
                  /\ hbPc' = [hbPc EXCEPT ![t] = "store"]
                  /\ UNCHANGED <<heartbeat_failures, last_heartbeat_time>>
    /\ UNCHANGED <<now, authVars, node_id, hbRunning>>

\* line 23: self.max_failures = 3
max_failures == 3

\* a store that, with the counter at max_failures, drops the registration so
\* that the node registers again
HbStoreAndReregister(t) ==
    /\ hbPc[t] = "store"
    /\ heartbeat_failures' = hbRead[t] + 1
    /\ hbRead' = [hbRead EXCEPT ![t] = 0]
    /\ hbPc' = [hbPc EXCEPT ![t] = HbAfter(t)]
    /\ node_id' = IF hbRead[t] + 1 >= max_failures THEN "None" ELSE node_id
    /\ UNCHANGED <<now, authVars, hbRunning, last_heartbeat_time, hbPayload>>

\* get_status(), lines 159-167, without the interval the constructor was
\* given
get_status ==
    [running |-> hbRunning, last_heartbeat |-> last_heartbeat_time,
     failures |-> heartbeat_failures, max_failures |-> max_failures]

\* the store of "heartbeat_failures += 1" (lines 55, 180), and lines 59-61:
\* with the counter at max_failures or above a line is printed
HbStore(t) ==
    /\ hbPc[t] = "store"
    /\ heartbeat_failures' = hbRead[t] + 1
    /\ hbRead' = [hbRead EXCEPT ![t] = 0]
    /\ hbPc' = [hbPc EXCEPT ![t] = HbAfter(t)]
    /\ UNCHANGED <<now, authVars, node_id, hbRunning, last_heartbeat_time,
                   hbPayload>>

(***************************************************************************)
(* cloud_websocket_client.py: the reconnecting channel                     *)
(***************************************************************************)
\* threads CloudWebSocketClient.start() may create
WsLoops == 1..MaxWsLoops

\* the messages whose way through send_message_sync() is followed
Msgs == {"m1", "m2"}

\* faulty variant of AfterFailedRound (mutation test): the loop returns after a
\* failed round
AfterFailedRoundGiveUp == "none"

\* where a round that failed leaves the loop: at the sleep of
\* reconnect_interval, after which the while condition is evaluated again
AfterFailedRound == "backoff"

\* faulty variant of send_message_outcomes (mutation test): the message is kept
\* and written although the connection it is handed to is closed
send_message_outcomes_kept(ws) ==
    IF ws = NoWebsocket THEN {"skipped"} ELSE {"written"}

\* what send_message_sync() can do with a message, given self.websocket:
\* nothing when it is None; await websocket.send(), which raises on a closed
\* connection and may raise or write on an open one; the exception is caught
send_message_outcomes(ws) ==
    IF ws = NoWebsocket THEN {"skipped"}
    ELSE IF ws = ClosedWebsocket THEN {"raised"}
    ELSE {"written", "raised"}

\* no frame is being handled
NoFrame == [json |-> "none", type |-> "absent"]

\* some loop holds an open connection
ConnectionOpen == \E t \in WsLoops : wsPc[t] = "listen"

\* start(): returns when running, else sets the flag and creates a thread
WsStart ==
    /\ ~wsRunning
    /\ \E t \in WsLoops :
        /\ wsPc[t] = "none"
        /\ \A u \in WsLoops : u < t => wsPc[u] # "none"
        /\ wsPc' = [wsPc EXCEPT ![t] = "check"]
    /\ wsRunning' = TRUE
    /\ UNCHANGED <<tokenVars, websocket, tokenAvail, netUp, msgFate, cloudGot>>

\* stop(): only clears the flag
WsStop ==
    /\ wsRunning' = FALSE
    /\ UNCHANGED <<tokenVars, websocket, wsPc, tokenAvail, netUp, msgFate, cloudGot>>

\* while self.running:
WsCheck(t) ==
    /\ wsPc[t] = "check"
    /\ wsPc' = [wsPc EXCEPT ![t] = IF wsRunning THEN "token" ELSE "none"]
    /\ UNCHANGED <<tokenVars, wsRunning, websocket, tokenAvail, netUp, msgFate,
                   cloudGot>>

\* token = self.auth_client.get_access_token(); without a token the round ends
WsToken(t) ==
    /\ wsPc[t] = "token"
    /\ \E tok \in BodyTokens :
        /\ get_access_token_when(tok, tokenAvail)
        /\ wsPc' = [wsPc EXCEPT ![t] =
                       IF tok = "None" THEN AfterFailedRound ELSE "connect"]
    /\ UNCHANGED <<wsRunning, websocket, tokenAvail, netUp, msgFate, cloudGot>>

\* async with websockets.connect(...) as websocket: self.websocket = websocket,
\* or the exception of a failed attempt, which ends the round
WsConnect(t) ==
    /\ wsPc[t] = "connect"
    /\ IF netUp
       THEN /\ websocket' = t
            /\ wsPc' = [wsPc EXCEPT ![t] = "listen"]
       ELSE /\ wsPc' = [wsPc EXCEPT ![t] = AfterFailedRound]
            /\ UNCHANGED websocket
    /\ UNCHANGED <<tokenVars, wsRunning, tokenAvail, netUp, msgFate, cloudGot>>

\* the connection of loop t ends (remote close, protocol error, transport
\* exception); self.websocket keeps referring to it.  The loop learns of it
\* at "async for", that is, once the handler it awaits has returned
WsClose(t) ==
    /\ wsPc[t] = "listen"
    /\ rxHandling[t] = NoFrame
    /\ wsPc' = [wsPc EXCEPT ![t] = AfterFailedRound]
    /\ websocket' = IF websocket = t THEN ClosedWebsocket ELSE websocket
    /\ UNCHANGED <<tokenVars, wsRunning, tokenAvail, netUp, msgFate, cloudGot>>

\* if self.running: await asyncio.sleep(self.reconnect_interval)
WsWake(t) ==
    /\ wsPc[t] = "backoff"
    /\ wsPc' = [wsPc EXCEPT ![t] = "check"]
    /\ UNCHANGED <<tokenVars, wsRunning, websocket, tokenAvail, netUp, msgFate,
                   cloudGot>>

\* send_message_sync(data) called for message m by another thread
WsSend(m) ==
    /\ msgFate[m].did = "unsent"
    /\ \E o \in send_message_outcomes(websocket) :
        /\ msgFate' = [msgFate EXCEPT ![m] =
                         [did |-> o, open |-> ConnectionOpen]]
        /\ cloudGot' = [cloudGot EXCEPT ![m] =
                          IF o = "written" THEN @ + 1 ELSE @]
    /\ UNCHANGED <<tokenVars, wsRunning, websocket, wsPc, tokenAvail, netUp>>

\* the auth server and the network come and go
EnvAuth ==
    /\ tokenAvail' = ~tokenAvail
    /\ UNCHANGED <<tokenVars, wsRunning, websocket, wsPc, netUp, msgFate, cloudGot>>

EnvNet ==
    /\ netUp' = ~netUp
    /\ UNCHANGED <<tokenVars, wsRunning, websocket, wsPc, tokenAvail, msgFate,
                   cloudGot>>

\* the variables of the other components, which the channel leaves alone
wsFrame == <<now, authPc, authRet, reqVars, node_id, hbVars, rxVars, jobVars, stVars,
            csVars, dlVars>>

\* the steps of the loop thread t itself
WsLoopStep(t) ==
    /\ \/ WsCheck(t)
       \/ WsToken(t)
       \/ WsConnect(t)
       \/ WsWake(t)
    /\ UNCHANGED wsFrame

(***************************************************************************)
(* cloud_websocket_client.py: the receive loop and _handle_message()       *)
(***************************************************************************)
\* message types a frame can carry and a handler can be registered for
MessageTypes == {"print_job", "ping", "unknown"}
HandlerTypes == {"print_job", "unknown"}

\* inbound text frames: text that is no JSON, JSON that is no object, and
\* objects with or without a "type" field
Frames ==
    {[json |-> "invalid", type |-> "absent"],
     [json |-> "array", type |-> "absent"]}
    \cup {[json |-> "object", type |-> ty] : ty \in MessageTypes \cup {"absent"}}
NoRxDid == [frame |-> NoFrame, invoked |-> {}, end |-> "none"]

\* data.get("type", "unknown")
message_type_of(frame) == IF frame.type = "absent" THEN "unknown" ELSE frame.type

\* a lookup that falls back to some registered handler
handler_for_or_any(message_type, handlers) ==
    IF message_type \in handlers THEN {message_type} ELSE handlers

\* if message_type in self.message_handlers: handler = self.message_handlers[..]
handler_for(message_type, handlers) ==
    IF message_type \in handlers THEN {message_type} ELSE {}

\* what _handle_message() does with a frame before any handler runs:
\* json.loads() raises, data.get raises on JSON that is no object, no handler
\* is registered, or the handler is handed to the executor
handle_message_of(frame, handlers) ==
    IF frame.json = "invalid" THEN [invoked |-> {}, end |-> "bad_json"]
    ELSE IF frame.json # "object" THEN [invoked |-> {}, end |-> "raised_early"]
    ELSE IF handler_for(message_type_of(frame), handlers) = {}
         THEN [invoked |-> {}, end |-> "no_handler"]
    ELSE [invoked |-> handler_for(message_type_of(frame), handlers),
          end |-> "running"]

\* add_message_handler(message_type, handler)
AddMessageHandler(ty) ==
    /\ ty \notin message_handlers
    /\ message_handlers' = message_handlers \cup {ty}
    /\ UNCHANGED <<rxHandling, rxCount, rxDid>>

\* async for message in websocket: await self._handle_message(message), up to
\* the await of run_in_executor() or to the except clause that drops the frame
WsReceive(t) ==
    /\ wsPc[t] = "listen"
    /\ rxHandling[t] = NoFrame
    /\ rxCount < MaxFrames
    /\ \E frame \in Frames :
        LET did == handle_message_of(frame, message_handlers) IN
        /\ rxDid' = [rxDid EXCEPT ![t] =
                       [frame |-> frame, invoked |-> did.invoked, end |-> did.end]]
        /\ rxHandling' = [rxHandling EXCEPT ![t] =
                            IF did.end = "running" THEN frame ELSE NoFrame]
    /\ rxCount' = rxCount + 1
    /\ UNCHANGED message_handlers

\* the handler the loop awaits returns or raises; the exception is caught
\* by "except Exception" and the loop goes to the next frame
WsHandlerDone(t) ==
    /\ rxHandling[t] # NoFrame
    /\ \E end \in {"returned", "raised"} :
        rxDid' = [rxDid EXCEPT ![t].end = end]
    /\ rxHandling' = [rxHandling EXCEPT ![t] = NoFrame]
    /\ UNCHANGED <<message_handlers, rxCount>>

\* the variables the receive loop leaves alone
rxFrame == <<now, authVars, reqVars, node_id, hbVars, wsVars, jobVars, stVars,
            csVars, dlVars>>

(***************************************************************************)
(* cloud_websocket_client.py: PrintJobHandler                              *)
(***************************************************************************)
Jobs == 1..MaxJobs

\* a print_job message: its "data" is absent, not a dict, or a dict whose
\* job_id, printer_name and file_url are each there (truthy) or not
JobMessages ==
    {[data |-> d, job_id |-> FALSE, printer_name |-> FALSE, file_url |-> FALSE] :
        d \in {"absent", "notdict"}}
    \cup [data : {"dict"}, job_id : BOOLEAN, printer_name : BOOLEAN,
          file_url : BOOLEAN]

NoJobMessage ==
    [data |-> "none", job_id |-> FALSE, printer_name |-> FALSE, file_url |-> FALSE]

\* the download request of a job while it is in flight: which of the two
\* markers its URL holds, whether it carries the Authorization header, its
\* headers, and what get_access_token() returned when they were built
NoRequest ==
    [sent |-> FALSE, algorithm |-> FALSE, signature |-> FALSE,
     authorization |-> FALSE, headers |-> NoHeaders, token |-> "None"]

NoJobLog == [downloads |-> 0, submits |-> 0, monitors |-> 0, end |-> "none",
             request |-> NoRequest, polled |-> "none"]

\* faulty variant of all_present (mutation test): file_url is not looked at
all_present_but_url(msg) == msg.job_id /\ msg.printer_name

\* all([job_id, printer_name, file_url])
all_present(msg) == msg.job_id /\ msg.printer_name /\ msg.file_url

\* faulty variant of after_download (mutation test): the handler goes on after
\* a failed download
after_download_goes_on(ok) == "submit"

\* if not file_path: report the failure and return
after_download(ok) == IF ok THEN "submit" ELSE "done"

\* faulty variant of monitor_continues (mutation test): one round too many
monitor_continues_once_more(waited) == waited <= max_wait_time

\* while waited_time < max_wait_time
monitor_continues(waited) == waited < max_wait_time

\* a report that is left out once the channel's flag is cleared
job_update_if_running(j, status, progress, error) ==
    IF wsRunning
    THEN \E o \in send_message_outcomes(websocket) :
            jobUpdates' = [jobUpdates EXCEPT ![j] =
                Append(@, [status |-> status, progress |-> progress,
                           error |-> error, did |-> o, running |-> wsRunning])]
    ELSE UNCHANGED jobUpdates

\* _report_job_failure and _report_job_success: with a job_id and the channel
\* wired, one job_update is handed to send_message_sync(), whose outcome did is
\* kept with it, as is the channel's running flag at that time (line 347
\* prints it and goes on)
job_update(j, status, progress, error) ==
    \E o \in send_message_outcomes(websocket) :
        jobUpdates' = [jobUpdates EXCEPT ![j] =
            Append(@, [status |-> status, progress |-> progress,
                       error |-> error, did |-> o, running |-> wsRunning])]

\* a failure that is printed and not reported
report_job_failure_silent(j, error) == UNCHANGED jobUpdates

report_job_failure(j, error) == job_update(j, "failed", 0, error)

report_job_success(j) == job_update(j, "completed", 100, "None")

\* handle_print_job up to the validation: a print_job frame has come in over
\* an open connection and was dispatched to the handler.  A data that is not
\* a dict raises at data.get, and again in the except branch
JobHandle(j) ==
    /\ jobPc[j] = "none"
    /\ ConnectionOpen
    /\ \E msg \in JobMessages :
        /\ jobMsg' = [jobMsg EXCEPT ![j] = msg]
        /\ IF msg.data = "notdict"
           THEN /\ jobPc' = [jobPc EXCEPT ![j] = "done"]
                /\ jobLog' = [jobLog EXCEPT ![j].end = "raised"]
           ELSE IF ~all_present(msg)
           THEN /\ jobPc' = [jobPc EXCEPT ![j] = "done"]
                /\ jobLog' = [jobLog EXCEPT ![j].end = "incomplete"]
           ELSE /\ jobPc' = [jobPc EXCEPT ![j] = "download"]
                /\ UNCHANGED jobLog
    /\ UNCHANGED <<tokenVars, wsVars, waited_time, jobUpdates>>

\* a file_url by the two markers line 240 looks for anywhere in it
FileUrls == [algorithm : BOOLEAN, signature : BOOLEAN]

\* a test that takes either marker for a pre-signed URL
is_presigned_either(url) == url.algorithm \/ url.signature

\* line 240: 'X-Amz-Algorithm' in file_url and 'X-Amz-Signature' in file_url
is_presigned(url) == url.algorithm /\ url.signature

\* line 247: requests.get(file_url, headers=headers, timeout=30)
request_of(url, headers, tok) ==
    [sent |-> TRUE, algorithm |-> url.algorithm, signature |-> url.signature,
     authorization |-> headers.Authorization # NoHeader,
     headers |-> headers, token |-> tok]

\* _download_print_file up to the request, lines 237-247: a pre-signed URL is
\* fetched without headers, any other with get_auth_headers()
JobRequest(j) ==
    /\ jobPc[j] = "download"
    /\ \E url \in FileUrls :
        IF is_presigned(url)
        THEN /\ UNCHANGED tokenVars
             /\ jobLog' = [jobLog EXCEPT
                              ![j].request = request_of(url, NoHeaders, "None")]
        ELSE \E tok \in BodyTokens :
             \E headers \in HeaderSets :
                /\ get_auth_headers(tok, headers)
                /\ jobLog' = [jobLog EXCEPT
                                 ![j].request = request_of(url, headers, tok)]
    /\ jobPc' = [jobPc EXCEPT ![j] = "response"]
    /\ UNCHANGED <<wsVars, jobMsg, waited_time, jobUpdates>>

\* lines 249-273 and 205-207: the response or the exception ends the request
JobDownload(j) ==
    /\ jobPc[j] = "response"
    /\ \E ok \in BOOLEAN :
        /\ jobPc' = [jobPc EXCEPT ![j] = after_download(ok)]
        /\ IF ok
           THEN /\ jobLog' = [jobLog EXCEPT ![j].downloads = @ + 1,
                                            ![j].request = NoRequest]
                /\ UNCHANGED jobUpdates
           ELSE /\ jobLog' = [jobLog EXCEPT ![j].downloads = @ + 1,
                                            ![j].request = NoRequest,
                                            ![j].end = "download_failed"]
                /\ report_job_failure(j, "download_failed")
    /\ UNCHANGED tokenVars
    /\ UNCHANGED <<wsVars, jobMsg, waited_time>>

\* what submit_print_job_with_cleanup can come back with: success with or
\* without a local job id, a failure with or without a message, an exception
SubmitResults == {"handle", "nohandle", "failed", "failed_nomsg", "raised"}

\* a handler that starts the monitor whatever the submission came to
after_submit_monitors_always(r) ==
    IF r = "nohandle" THEN "delay" ELSE "poll"

\* lines 214-222 and 224-226: the monitor thread is started after a
\* successful submission only
after_submit(r) ==
    CASE r = "handle" -> "poll"
      [] r = "nohandle" -> "delay"
      [] OTHER -> "done"

\* result.get("message", "未知错误") and str(e)
submit_error_of(r) ==
    CASE r = "failed" -> "backend_message"
      [] r = "failed_nomsg" -> "unknown_error"
      [] OTHER -> "exception_text"

\* submit_print_job_with_cleanup and the branch on its result: success with or
\* without a local job id starts the monitor thread, a failure is reported
\* with the backend's message, an exception with its text
JobSubmit(j) ==
    /\ jobPc[j] = "submit"
    /\ \E r \in SubmitResults :
        /\ jobPc' = [jobPc EXCEPT ![j] = after_submit(r)]
        /\ IF r \in {"handle", "nohandle"}
           THEN /\ jobLog' = [jobLog EXCEPT ![j].submits = @ + 1,
                                            ![j].monitors = @ + 1]
                /\ UNCHANGED jobUpdates
           ELSE /\ jobLog' = [jobLog EXCEPT ![j].submits = @ + 1,
                      ![j].end = CASE r = "failed" -> "submit_failed"
                                   [] r = "failed_nomsg" -> "submit_failed_nomsg"
                                   [] OTHER -> "submit_raised"]
                /\ report_job_failure(j, submit_error_of(r))
    /\ UNCHANGED <<tokenVars, wsVars, jobMsg, waited_time>>

\* monitor() without a local job id: sleep, then report success
JobDelay(j) ==
    /\ jobPc[j] = "delay"
    /\ jobPc' = [jobPc EXCEPT ![j] = "done"]
    /\ jobLog' = [jobLog EXCEPT ![j].end = "nohandle"]
    /\ report_job_success(j)
    /\ UNCHANGED <<tokenVars, wsVars, jobMsg, waited_time>>

\* what a call of get_job_status can come to: the job is not in the queue, it
\* is there with status completed, it is there and printing, the call raises
PollResults == {"gone", "completed", "pending", "raised"}

\* the dict get_job_status returns
job_status_of(r) ==
    CASE r = "gone" -> [exists |-> FALSE, status |-> "completed_or_failed"]
      [] r = "completed" -> [exists |-> TRUE, status |-> "completed"]
      [] OTHER -> [exists |-> TRUE, status |-> "printing"]

\* a monitor that goes by the queue alone
job_finished_when_gone(job_status) == ~job_status.exists

\* lines 303-310: not job_status.get("exists", True), or
\* job_status.get("status") in ["completed", "completed_or_failed"]
job_finished(job_status) ==
    \/ ~job_status.exists
    \/ job_status.status \in {"completed", "completed_or_failed"}

\* a monitor that reports an exception of the status query as a failure
report_after_poll_fails_on_raise(j, r) ==
    IF r = "raised"
    THEN report_job_failure(j, "exception_text")
    ELSE report_job_success(j)

\* lines 305, 309 and 321: the job that is gone, the job that is completed and
\* the exception are each answered with _report_job_success
report_after_poll(j, r) == report_job_success(j)

\* one round of the monitor loop: sleep, add to waited_time, get_job_status;
\* a job that is gone or completed, and an exception, end in a success report
\* and the return of the thread, with which its waited_time is gone
JobPoll(j) ==
    /\ jobPc[j] = "poll"
    /\ monitor_continues(waited_time[j])
    /\ \E r \in PollResults :
        IF r # "raised" /\ ~job_finished(job_status_of(r))
        THEN /\ waited_time' = [waited_time EXCEPT ![j] = @ + check_interval]
             /\ jobLog' = [jobLog EXCEPT ![j].polled = r]
             /\ UNCHANGED <<jobPc, jobUpdates>>
        ELSE /\ waited_time' = [waited_time EXCEPT ![j] = 0]
             /\ jobLog' = [jobLog EXCEPT
                   ![j].polled = r,
                   ![j].end = IF r = "raised" THEN "poll_raised" ELSE "terminal"]
             /\ jobPc' = [jobPc EXCEPT ![j] = "done"]
             /\ report_after_poll(j, r)
    /\ UNCHANGED <<tokenVars, wsVars, jobMsg>>

\* the loop has run out: success is reported all the same
JobCeiling(j) ==
    /\ jobPc[j] = "poll"
    /\ ~monitor_continues(waited_time[j])
    /\ waited_time' = [waited_time EXCEPT ![j] = 0]
    /\ jobPc' = [jobPc EXCEPT ![j] = "done"]
    /\ jobLog' = [jobLog EXCEPT ![j].end = "ceiling"]
    /\ report_job_success(j)
    /\ UNCHANGED <<tokenVars, wsVars, jobMsg>>

\* the variables of the other components, which the pipeline leaves alone
jobFrame == <<now, authPc, authRet, reqVars, node_id, hbVars, rxVars, stVars,
             csVars, dlVars>>

\* the steps of the handler and of the monitor thread of job j
JobStep(j) ==
    /\ \/ JobRequest(j)
       \/ JobDownload(j)
       \/ JobSubmit(j)
       \/ JobDelay(j)
       \/ JobPoll(j)
       \/ JobCeiling(j)
    /\ UNCHANGED jobFrame

(***************************************************************************)
(* cloud_service.py: PrinterStatusReporter                                 *)
(***************************************************************************)
Printers == 1..MaxPrinters

\* what get_printer_status() returns: zh_idle, zh_printing, zh_disabled,
\* zh_online, zh_offline and zh_unknown stand for the Chinese words of the
\* source; other stands for any string that is no key of status_map
BackendStatuses ==
    {"zh_idle", "zh_printing", "zh_disabled", "zh_online", "zh_offline",
     "zh_unknown", "other"}

\* len(queue_jobs)
QueueLengths == 0..MaxQueue

\* last_info of a printer that is not in the cache: .get() gives None
NoStatusInfo == [status |-> "None", queue_length |-> NoQueueLength]

\* a conversion that hands on what it does not know
convert_status_or_same(cups_status) ==
    CASE cups_status \in {"idle", "zh_online", "zh_idle"} -> "ready"
      [] cups_status \in {"processing", "zh_printing"} -> "printing"
      [] cups_status \in {"stopped", "zh_stopped", "zh_disabled"} -> "error"
      [] cups_status \in {"unknown", "zh_offline", "zh_unknown"} -> "offline"
      [] OTHER -> cups_status

\* _convert_status_to_cloud_format: status_map.get(cups_status, "offline")
convert_status_to_cloud_format(cups_status) ==
    CASE cups_status = "idle" -> "ready"
      [] cups_status = "processing" -> "printing"
      [] cups_status = "stopped" -> "error"
      [] cups_status = "unknown" -> "offline"
      [] cups_status = "zh_online" -> "ready"
      [] cups_status = "zh_idle" -> "ready"
      [] cups_status = "zh_printing" -> "printing"
      [] cups_status = "zh_offline" -> "offline"
      [] cups_status = "zh_stopped" -> "error"
      [] cups_status = "zh_disabled" -> "error"
      [] cups_status = "zh_unknown" -> "offline"
      [] OTHER -> "offline"

\* faulty variant of status_changed (mutation test): the queue length is not
\* compared
status_changed_status_only(last_info, cloud_status, queue_length) ==
    last_info.status # cloud_status

\* last_info.get("status") != cloud_status or
\* last_info.get("queue_length") != current_queue_length
status_changed(last_info, cloud_status, queue_length) ==
    \/ last_info.status # cloud_status
    \/ last_info.queue_length # queue_length

\* CloudService.start() constructs the reporter and starts it, once for each
\* reporter; start() sets the flag and creates the thread
StStart ==
    /\ stPc = "new"
    /\ stRunning' = TRUE
    /\ stPc' = "check"
    /\ UNCHANGED <<stPos, last_status, stSeen, stEmitted, stDid, stSent, current_status>>

\* stop(): only clears the flag
StStop ==
    /\ stPc # "new"
    /\ stRunning' = FALSE
    /\ UNCHANGED <<stPc, stPos, last_status, stSeen, stEmitted, stDid, stSent,
                   current_status>>

\* while self.running: a cycle begins with the first managed printer
StLoopCheck ==
    /\ stPc = "check"
    /\ IF stRunning
       THEN /\ stPc' = "cycle"
            /\ stPos' = 1
       ELSE /\ stPc' = "exit"
            /\ UNCHANGED stPos
    /\ UNCHANGED <<stRunning, last_status, stSeen, stEmitted, stDid, stSent,
                   current_status>>

\* a loop that a failed cycle ends
after_failed_cycle_exits == "exit"

\* lines 412-413 and 364-365: an exception in the cycle is caught and printed,
\* _check_and_report_status returns and the loop sleeps check_interval
after_failed_cycle == "sleep"

\* get_print_queue (or another call of the cycle) raises at printer p: the
\* rest of the cycle is left out
StQueryFails(p) ==
    /\ stPc = "cycle"
    /\ stPos = p
    /\ stPc' = after_failed_cycle
    /\ stDid' = "raised"
    /\ stSent' = "none"
    /\ UNCHANGED <<stRunning, stPos, last_status, stSeen, stEmitted,
                   current_status>>

\* lines 403-406: after send_printer_status(), which returns nothing and raises
\* nothing, the cache takes the status and the queue length just handed in
cache_after_send(p, info) == last_status' = [last_status EXCEPT ![p] = info]

\* where the cycle goes after printer p
StAfter(p) == IF p = MaxPrinters THEN "sleep" ELSE "cycle"

\* the body of the for loop for printer p: a printer that is not in the list
\* of this cycle, or has no name, is passed over; else the status and the
\* queue are asked for, the status is converted and compared with the cache,
\* and on a difference send_printer_status() is called and the cache updated
StCheckPrinter(p) ==
    /\ stPc = "cycle"
    /\ stPos = p
    /\ stPos' = p + 1
    /\ stPc' = StAfter(p)
    /\ \/ /\ stDid' = "skipped"
          /\ stSent' = "none"
          /\ UNCHANGED <<last_status, stSeen, stEmitted, current_status>>
       \/ \E cups_status \in BackendStatuses, queue_length \in QueueLengths :
            LET cloud_status == convert_status_to_cloud_format(cups_status)
                info == [status |-> cloud_status, queue_length |-> queue_length]
            IN /\ current_status' = cups_status
               /\ stSeen' = [stSeen EXCEPT ![p] = info]
               /\ IF status_changed(last_status[p], cloud_status, queue_length)
                  THEN /\ stDid' = "emitted"
                       /\ stEmitted' = [stEmitted EXCEPT ![p] = info]
                       /\ \E o \in send_message_outcomes(websocket) : stSent' = o
                       /\ cache_after_send(p, info)
                  ELSE /\ stDid' = "quiet"
                       /\ stSent' = "none"
                       /\ UNCHANGED <<stEmitted, last_status>>
    /\ UNCHANGED stRunning

\* time.sleep(self.check_interval) ends
StWake ==
    /\ stPc = "sleep"
    /\ stPc' = "check"
    /\ UNCHANGED <<stRunning, stPos, last_status, stSeen, stEmitted, stDid, stSent,
                   current_status>>

\* the variables of the other components, which the reporter leaves alone
stFrame == <<now, authVars, reqVars, node_id, hbVars, wsVars, rxVars, jobVars,
            csVars, dlVars>>

(***************************************************************************)
(* cloud_websocket_client.py: the temporary files of the downloads         *)
(***************************************************************************)
\* the print jobs whose files are followed; the job_id of job j is its number
DlJobs == 1..MaxDownloads

\* os.path.basename(urlparse(file_url).path): names with a dot, a name
\* without one, and the empty name of a path that ends in "/"
DottedFileNames == {"doc.pdf", "cloud_job_2.pdf"}
UrlFileNames == DottedFileNames \cup {"download", ""}
NoFileName == "none"
NoPath == "none"

\* lines 252-262: the base name of the URL's path, or cloud_job_<job_id>.pdf
\* when it is empty or has no dot; the file is put into tempfile.gettempdir()
temp_file_path(name, job_id) ==
    IF name = "" \/ name \notin DottedFileNames
    THEN "cloud_job_" \o ToString(job_id) \o ".pdf"
    ELSE name

\* handle_print_job is called with the message of job j; the receive loop
\* awaits the handler, so no other handler is at its download
DlHandle(j) ==
    /\ dlPc[j] = "none"
    /\ \A k \in DlJobs : dlPc[k] # "download"
    /\ \E name \in UrlFileNames : dlName' = [dlName EXCEPT ![j] = name]
    /\ dlPc' = [dlPc EXCEPT ![j] = "download"]
    /\ UNCHANGED dlPath

\* _download_print_file, lines 246-273: the response is written to the
\* temporary file, or there is no file (another status code, an exception)
\* and the job is reported as failed; lines 210-217: the file is handed to
\* the print backend and the monitor of the job is started
DlWrite(j) ==
    /\ dlPc[j] = "download"
    /\ \/ /\ dlPath' = [dlPath EXCEPT ![j] = temp_file_path(dlName[j], j)]
          /\ dlPc' = [dlPc EXCEPT ![j] = "monitor"]
       \/ /\ dlPc' = [dlPc EXCEPT ![j] = "failed"]
          /\ UNCHANGED dlPath
    /\ UNCHANGED dlName

\* the monitor of job j reports the job as completed
DlReport(j) ==
    /\ dlPc[j] = "monitor"
    /\ dlPc' = [dlPc EXCEPT ![j] = "completed"]
    /\ UNCHANGED <<dlName, dlPath>>

\* the variables of the other components
dlFrame == <<now, authVars, reqVars, node_id, hbVars, wsVars, rxVars, jobVars,
             stVars, csVars>>

(***************************************************************************)
(* cloud_service.py: CloudService                                          *)
(***************************************************************************)
\* the result of start(): success is "true", "false" or "none" (no start()
\* has returned yet), node_id is the "node_id" entry ("None" when missing)
NoStartRet == [success |-> "none", node_id |-> "None"]
FailedStartRet == [success |-> "false", node_id |-> "None"]

\* a start() that starts the channel right after the registration
next_start_step_channel_first(step) ==
    CASE step = "register" -> "websocket"
      [] step = "websocket" -> "heartbeat"
      [] step = "heartbeat" -> "printers"
      [] step = "printers" -> "reporter"
      [] OTHER -> "idle"

\* start(), lines 86-110: the step that follows each numbered step
next_start_step(step) ==
    CASE step = "register" -> "heartbeat"
      [] step = "heartbeat" -> "printers"
      [] step = "printers" -> "websocket"
      [] step = "websocket" -> "reporter"
      [] OTHER -> "idle"

\* a start() that goes on after a failed registration
after_failed_registration_goes_on == next_start_step("register")

\* start(), lines 89-90: if not register_result["success"]: return
after_failed_registration == "idle"

\* what no step of CloudService touches
csOthers == <<now, authVars, reqVars, jobVars, tokenAvail, netUp, msgFate,
              cloudGot, rxCount, dlVars>>
\* the state of the CloudWebSocketClient that CloudService holds
wsClientVars == <<wsRunning, websocket, wsPc, message_handlers, rxHandling, rxDid>>

\* CloudService(config, printer_manager): the components exist when the
\* service is enabled
CsInit ==
    /\ csPc = "new"
    /\ csPc' = "idle"
    /\ \E en \in BOOLEAN, pm \in BOOLEAN :
        /\ enabled' = en
        /\ printer_manager' = pm
    /\ lastOp' = "init"
    /\ lastCall' = "none"
    /\ UNCHANGED <<registered, websocket_client, startRet, startLog, stopLog,
                   stopRet, node_id, hbVars, wsClientVars, stVars, csOthers>>

\* start(), lines 78-90, with _register_node(): the service is not enabled,
\* or step 1 is skipped, succeeds (data.id may be null) or fails
CsStart ==
    /\ csPc = "idle"
    /\ lastOp' = "start"
    /\ lastCall' = "start"
    /\ IF ~enabled
       THEN /\ startRet' = FailedStartRet
            /\ startLog' = <<>>
            /\ UNCHANGED <<csPc, registered, node_id>>
       ELSE \E auto_register \in BOOLEAN :
            IF ~auto_register
            THEN /\ startRet' = NoStartRet
                 /\ startLog' = <<>>
                 /\ csPc' = next_start_step("register")
                 /\ UNCHANGED <<registered, node_id>>
            ELSE \/ \E n \in NodeIds \cup {"None"} :
                    /\ node_id' = n
                    /\ registered' = TRUE
                    /\ startRet' = NoStartRet
                    /\ startLog' = <<"register">>
                    /\ csPc' = next_start_step("register")
                 \/ /\ startRet' = FailedStartRet
                    /\ startLog' = <<"register">>
                    /\ csPc' = after_failed_registration
                    /\ UNCHANGED <<registered, node_id>>
    /\ UNCHANGED <<enabled, printer_manager, websocket_client, stopLog, stopRet,
                   hbVars, wsClientVars, stVars, csOthers>>

\* start(), line 93: self.heartbeat_service.start()
CsStartHeartbeat ==
    /\ csPc = "heartbeat"
    /\ IF hbRunning THEN UNCHANGED hbVars ELSE HbStart
    /\ startLog' = Append(startLog, "heartbeat")
    /\ csPc' = next_start_step("heartbeat")
    /\ lastOp' = "start"
    /\ UNCHANGED lastCall
    /\ UNCHANGED <<enabled, printer_manager, registered, websocket_client,
                   startRet, stopLog, stopRet, node_id, wsClientVars, stVars,
                   csOthers>>

\* start(), lines 96-97: _register_current_printers(), whose outcome is ignored
CsStartPrinters ==
    /\ csPc = "printers"
    /\ \E auto_register_printers \in BOOLEAN :
        startLog' = IF auto_register_printers /\ printer_manager
                    THEN Append(startLog, "printers") ELSE startLog
    /\ csPc' = next_start_step("printers")
    /\ lastOp' = "start"
    /\ UNCHANGED lastCall
    /\ UNCHANGED <<enabled, printer_manager, registered, websocket_client,
                   startRet, stopLog, stopRet, node_id, hbVars, wsClientVars,
                   stVars, csOthers>>

\* start(), line 100, _start_websocket(): nothing without a registration or a
\* node id; else a new client, the print_job handler added when there is a
\* PrintJobHandler, and the client started.  The loops of a client the
\* service has let go of are no longer part of its state
CsStartWebsocket ==
    /\ csPc = "websocket"
    /\ IF registered /\ node_id # "None"
       THEN /\ websocket_client' = TRUE
            /\ message_handlers' = IF printer_manager THEN {"print_job"} ELSE {}
            /\ wsRunning' = TRUE
            /\ websocket' = NoWebsocket
            /\ wsPc' = [t \in WsLoops |-> IF t = 1 THEN "check" ELSE "none"]
            /\ rxHandling' = [t \in WsLoops |-> NoFrame]
            /\ rxDid' = [t \in WsLoops |-> NoRxDid]
            /\ startLog' = startLog \o
                   (IF printer_manager
                    THEN <<"channel_create", "handler", "channel_start">>
                    ELSE <<"channel_create", "channel_start">>)
       ELSE UNCHANGED <<websocket_client, wsClientVars, startLog>>
    /\ csPc' = next_start_step("websocket")
    /\ lastOp' = "start"
    /\ UNCHANGED lastCall
    /\ UNCHANGED <<enabled, printer_manager, registered, startRet, stopLog,
                   stopRet, node_id, hbVars, stVars, csOthers>>

\* start(), lines 103-110: with a client and a node id a new
\* PrinterStatusReporter is started; start() returns success with self.node_id
CsStartReporter ==
    /\ csPc = "reporter"
    /\ IF websocket_client /\ node_id # "None"
       THEN /\ stRunning' = TRUE
            /\ stPc' = "check"
            /\ stPos' = 0
            /\ last_status' = [p \in Printers |-> NoStatusInfo]
            /\ stSeen' = [p \in Printers |-> NoStatusInfo]
            /\ stEmitted' = [p \in Printers |-> NoStatusInfo]
            /\ stDid' = "none"
            /\ stSent' = "none"
            /\ current_status' = "None"
            /\ startLog' = Append(startLog, "reporter")
       ELSE UNCHANGED <<stVars, startLog>>
    /\ startRet' = [success |-> "true", node_id |-> node_id]
    /\ csPc' = next_start_step("reporter")
    /\ lastOp' = "start"
    /\ UNCHANGED lastCall
    /\ UNCHANGED <<enabled, printer_manager, registered, websocket_client,
                   stopLog, stopRet, node_id, hbVars, wsClientVars, csOthers>>

\* a stop() that calls stop() on components that are not there
CsStopUnguarded ==
    /\ csPc # "new"
    /\ wsRunning' = FALSE
    /\ hbRunning' = FALSE
    /\ stRunning' = FALSE
    /\ stopLog' = <<"channel", "heartbeat", "reporter">>
    /\ stopRet' = IF websocket_client /\ enabled /\ stPc # "new"
                  THEN "done" ELSE "raised"
    /\ registered' = FALSE
    /\ lastOp' = "cs_stop"
    /\ lastCall' = "stop"
    /\ UNCHANGED <<csPc, enabled, printer_manager, websocket_client, startRet,
                   startLog, node_id, heartbeat_failures, last_heartbeat_time,
                   hbPc, hbPayload, hbRead, websocket, wsPc, message_handlers,
                   rxHandling, rxDid, stPc, stPos, last_status, stSeen,
                   stEmitted, stDid, stSent, current_status, csOthers>>

\* stop(), lines 116-130: websocket_client.stop(), heartbeat_service.stop(),
\* status_reporter.stop(), each only when the component is there
CsStop ==
    /\ csPc # "new"
    /\ wsRunning' = IF websocket_client THEN FALSE ELSE wsRunning
    /\ hbRunning' = IF enabled THEN FALSE ELSE hbRunning
    /\ stRunning' = IF stPc # "new" THEN FALSE ELSE stRunning
    /\ stopLog' = (IF websocket_client THEN <<"channel">> ELSE <<>>)
                  \o (IF enabled THEN <<"heartbeat">> ELSE <<>>)
                  \o (IF stPc # "new" THEN <<"reporter">> ELSE <<>>)
    /\ stopRet' = "done"
    /\ registered' = FALSE
    /\ lastOp' = "cs_stop"
    /\ lastCall' = "stop"
    /\ UNCHANGED <<csPc, enabled, printer_manager, websocket_client, startRet,
                   startLog, node_id, heartbeat_failures, last_heartbeat_time,
                   hbPc, hbPayload, hbRead, websocket, wsPc, message_handlers,
                   rxHandling, rxDid, stPc, stPos, last_status, stSeen,
                   stEmitted, stDid, stSent, current_status, csOthers>>

\* the heartbeat loop of a stopped service comes to line 46 and ends
HbLoopExit(t) == ~hbRunning /\ HbLoopCheck(t)

\* stop() called on one component by itself
CsComponentStop ==
    \/ /\ enabled
       /\ HbStop
       /\ lastOp' = "hb_stop"
       /\ UNCHANGED <<wsClientVars, stVars>>
    \/ /\ websocket_client
       /\ wsRunning' = FALSE
       /\ lastOp' = "ws_stop"
       /\ UNCHANGED <<hbVars, websocket, wsPc, message_handlers, rxHandling,
                      rxDid, stVars>>
    \/ /\ StStop
       /\ lastOp' = "st_stop"
       /\ UNCHANGED <<hbVars, wsClientVars>>

\* what the steps of the loops leave alone in the service
csFrame == <<csPc, enabled, printer_manager, registered, websocket_client,
             startRet, startLog, stopLog, stopRet, lastCall>>

\* the wall clock
Tick ==
    /\ now < MaxTicks * TickSeconds
    /\ now' = now + TickSeconds
    /\ IF /\ is_token_valid(access_token, token_expires_at, now)
          /\ ~is_token_valid(access_token, token_expires_at, now')
       THEN authRequests' = 0 /\ crossed' = TRUE
       ELSE UNCHANGED <<authRequests, crossed>>
    /\ UNCHANGED <<authVars, tokenFrom, sameResponse,
                   node_id, hbVars, wsVars, rxVars, jobVars, stVars, csVars, dlVars>>

Init ==
    /\ now = 0
    /\ access_token = "None"
    /\ token_expires_at = NoExpiry
    /\ authPc = [c \in AuthCallers |-> "idle"]
    /\ authRet = [c \in AuthCallers |-> NoRet]
    /\ authRequests = 0
    /\ tokenFrom = NoCaller
    /\ sameResponse = TRUE
    /\ crossed = FALSE
    /\ node_id = "None"
    /\ hbRunning = FALSE
    /\ heartbeat_failures = 0
    /\ last_heartbeat_time = 0
    /\ hbPc = [t \in HbThreads |-> "none"]
    /\ hbPayload = [t \in HbThreads |-> NoPayload]
    /\ hbRead = [t \in HbThreads |-> 0]
    /\ wsRunning = FALSE
    /\ websocket = NoWebsocket
    /\ wsPc = [t \in WsLoops |-> "none"]
    /\ tokenAvail = TRUE
    /\ netUp = TRUE
    /\ msgFate = [m \in Msgs |-> [did |-> "unsent", open |-> FALSE]]
    /\ cloudGot = [m \in Msgs |-> 0]
    /\ message_handlers = {}
    /\ rxHandling = [t \in WsLoops |-> NoFrame]
    /\ rxCount = 0
    /\ rxDid = [t \in WsLoops |-> NoRxDid]
    /\ jobMsg = [j \in Jobs |-> NoJobMessage]
    /\ jobPc = [j \in Jobs |-> "none"]
    /\ waited_time = [j \in Jobs |-> 0]
    /\ jobLog = [j \in Jobs |-> NoJobLog]
    /\ jobUpdates = [j \in Jobs |-> <<>>]
    /\ stRunning = FALSE
    /\ stPc = "new"
    /\ stPos = 0
    /\ last_status = [p \in Printers |-> NoStatusInfo]
    /\ stSeen = [p \in Printers |-> NoStatusInfo]
    /\ stEmitted = [p \in Printers |-> NoStatusInfo]
    /\ stDid = "none"
    /\ stSent = "none"
    /\ current_status = "None"
    /\ csPc = "new"
    /\ enabled = FALSE
    /\ printer_manager = FALSE
    /\ registered = FALSE
    /\ websocket_client = FALSE
    /\ startRet = NoStartRet
    /\ startLog = <<>>
    /\ stopLog = <<>>
    /\ stopRet = "none"
    /\ lastOp = "none"
    /\ lastCall = "none"
    /\ dlPc = [j \in DlJobs |-> "none"]
    /\ dlName = [j \in DlJobs |-> NoFileName]
    /\ dlPath = [j \in DlJobs |-> NoPath]

NextAuth ==
    \/ Tick
    \/ \E c \in AuthCallers :
        /\ \/ AuthCall(c)
           \/ AuthPost(c)
           \/ AuthSetExpiry(c)
        /\ UNCHANGED <<node_id, hbVars, wsVars, rxVars, jobVars, stVars, csVars, dlVars>>

SpecAuth == Init /\ [][NextAuth]_vars

\* the variables of the other components, which the heartbeat leaves alone
hbFrame == <<reqVars, wsVars, rxVars, jobVars, stVars, csVars, dlVars>>

NextHeartbeat ==
    \/ RegisterEdgeNode /\ UNCHANGED hbFrame
    \/ HbStart /\ UNCHANGED hbFrame
    \/ HbStop /\ UNCHANGED hbFrame
    \/ HbForce /\ UNCHANGED hbFrame
    \/ \E t \in HbThreads :
        /\ \/ HbLoopCheck(t)
           \/ HbCollect(t)
           \/ HbPost(t)
           \/ HbStore(t)
        /\ UNCHANGED hbFrame

SpecHeartbeat == Init /\ [][NextHeartbeat]_vars

\* the reconnect loop with its callers and its environment
NextReconnect ==
    \/ WsStart /\ UNCHANGED wsFrame
    \/ WsStop /\ UNCHANGED wsFrame
    \/ EnvAuth /\ UNCHANGED wsFrame
    \/ EnvNet /\ UNCHANGED wsFrame
    \/ \E t \in WsLoops : WsLoopStep(t)
    \/ \E t \in WsLoops : WsClose(t) /\ UNCHANGED wsFrame

\* the loop thread runs whenever it can: its sleeps end, and the token request
\* and the connection attempt return, by success, error or timeout
SpecReconnect ==
    /\ Init
    /\ [][NextReconnect]_vars
    /\ \A t \in WsLoops : WF_vars(WsLoopStep(t))

\* the reconnect loop and the threads that send over the channel
NextChannel ==
    \/ NextReconnect
    \/ \E m \in Msgs : WsSend(m) /\ UNCHANGED wsFrame

SpecChannel == Init /\ [][NextChannel]_vars

\* the channel with the frames it receives and the handlers it runs
NextDispatch ==
    \/ WsStart /\ UNCHANGED wsFrame
    \/ \E t \in WsLoops : WsLoopStep(t)
    \/ \E t \in WsLoops : WsClose(t) /\ UNCHANGED wsFrame
    \/ \E ty \in HandlerTypes : AddMessageHandler(ty) /\ UNCHANGED rxFrame
    \/ \E t \in WsLoops : WsReceive(t) /\ UNCHANGED rxFrame
    \/ \E t \in WsLoops : WsHandlerDone(t) /\ UNCHANGED rxFrame

SpecDispatch == Init /\ [][NextDispatch]_vars

\* the channel that is stopped while it holds a connection
NextStopped ==
    \/ (\A t \in WsLoops : wsPc[t] = "none") /\ WsStart /\ UNCHANGED wsFrame
    \/ WsStop /\ UNCHANGED wsFrame
    \/ \E t \in WsLoops : WsLoopStep(t)
    \/ \E t \in WsLoops : WsClose(t) /\ UNCHANGED wsFrame
    \/ \E ty \in HandlerTypes : AddMessageHandler(ty) /\ UNCHANGED rxFrame
    \/ \E t \in WsLoops : WsReceive(t) /\ UNCHANGED rxFrame
    \/ \E t \in WsLoops : WsHandlerDone(t) /\ UNCHANGED rxFrame

SpecStopped == Init /\ [][NextStopped]_vars

\* the print jobs of one channel and their temporary files
NextFiles ==
    \/ \E j \in DlJobs : DlHandle(j) /\ UNCHANGED dlFrame
    \/ \E j \in DlJobs : DlWrite(j) /\ UNCHANGED dlFrame
    \/ \E j \in DlJobs : DlReport(j) /\ UNCHANGED dlFrame

SpecFiles == Init /\ [][NextFiles]_vars

NextStatus ==
    \/ StStart /\ UNCHANGED stFrame
    \/ StStop /\ UNCHANGED stFrame
    \/ StLoopCheck /\ UNCHANGED stFrame
    \/ \E p \in Printers : StCheckPrinter(p) /\ UNCHANGED stFrame
    \/ \E p \in Printers : StQueryFails(p) /\ UNCHANGED stFrame
    \/ StWake /\ UNCHANGED stFrame

SpecStatus == Init /\ [][NextStatus]_vars

\* the reporter of a service whose channel connects and loses its connection
NextReport ==
    \/ (\A t \in WsLoops : wsPc[t] = "none") /\ WsStart /\ UNCHANGED wsFrame
    \/ \E t \in WsLoops : WsLoopStep(t)
    \/ \E t \in WsLoops : WsClose(t) /\ UNCHANGED wsFrame
    \/ StStart /\ UNCHANGED stFrame
    \/ StStop /\ UNCHANGED stFrame
    \/ StLoopCheck /\ UNCHANGED stFrame
    \/ \E p \in Printers : StCheckPrinter(p) /\ UNCHANGED stFrame
    \/ StWake /\ UNCHANGED stFrame

SpecReport == Init /\ [][NextReport]_vars

\* no step of the heartbeat service has been taken
HbUntouched ==
    /\ ~hbRunning
    /\ node_id = "None"
    /\ heartbeat_failures = 0
    /\ \A t \in HbThreads : hbPc[t] = "none"

\* the two background loops, each in the runs where the other has not been
\* started: they share no variable
NextLoops ==
    \/ /\ stPc = "new"
       /\ \/ RegisterEdgeNode
          \/ HbStart
          \/ HbStop
          \/ \E t \in HbLoops :
                \/ HbLoopCheck(t)
                \/ HbCollect(t)
                \/ HbPost(t)
                \/ HbStore(t)
       /\ UNCHANGED hbFrame
    \/ /\ HbUntouched
       /\ \/ StStart
          \/ StStop
          \/ StLoopCheck
          \/ \E p \in Printers : StCheckPrinter(p)
          \/ \E p \in Printers : StQueryFails(p)
          \/ StWake
       /\ UNCHANGED stFrame

SpecLoops == Init /\ [][NextLoops]_vars

\* the pipeline behind a channel that connects and loses its connection
NextJob ==
    \/ WsStart /\ UNCHANGED wsFrame
    \/ \E t \in WsLoops : WsLoopStep(t)
    \/ \E t \in WsLoops : WsClose(t) /\ UNCHANGED wsFrame
    \/ \E j \in Jobs : JobHandle(j) /\ UNCHANGED jobFrame
    \/ \E j \in Jobs : JobStep(j)

SpecJob == Init /\ [][NextJob]_vars

\* the pipeline behind a channel that is started once and stopped while jobs
\* are under way
NextMonitor ==
    \/ (\A t \in WsLoops : wsPc[t] = "none") /\ WsStart /\ UNCHANGED wsFrame
    \/ WsStop /\ UNCHANGED wsFrame
    \/ \E t \in WsLoops : WsLoopStep(t)
    \/ \E j \in Jobs : JobHandle(j) /\ UNCHANGED jobFrame
    \/ \E j \in Jobs : JobStep(j)

SpecMonitor == Init /\ [][NextMonitor]_vars

\* the handler on a connection that stays open, with an auth server that
\* comes and goes
NextDownload ==
    \/ WsStart /\ UNCHANGED wsFrame
    \/ \E t \in WsLoops : WsLoopStep(t)
    \/ EnvAuth /\ UNCHANGED wsFrame
    \/ \E j \in Jobs : JobHandle(j) /\ UNCHANGED jobFrame
    \/ \E j \in Jobs : JobStep(j)

SpecDownload == Init /\ [][NextDownload]_vars

\* CloudService with the callers of start() and stop()
NextOrch ==
    \/ CsInit
    \/ CsStart
    \/ CsStartHeartbeat
    \/ CsStartPrinters
    \/ CsStartWebsocket
    \/ CsStartReporter
    \/ CsStop
    \/ CsComponentStop
          /\ UNCHANGED <<csFrame, node_id, csOthers>>
    \/ \E t \in HbLoops :
          /\ HbLoopExit(t)
          /\ lastOp' = "loop"
          /\ UNCHANGED <<csFrame, reqVars, jobVars, wsVars, rxVars, stVars, dlVars>>

SpecOrch == Init /\ [][NextOrch]_vars

C5_Checks(p) ==
    /\ stPc = "cycle"
    /\ stPos = p
    /\ stPos' = p + 1
    /\ stDid' # "skipped"

\* a printer_status for printer p is emitted in this step
C5_Emits(p) == C5_Checks(p) /\ stDid' = "emitted"

\* C5: in every cycle and for every managed printer a printer_status is
\* emitted if and only if the mapped status or the queue length differs from
\* what was last emitted for the printer, and it carries what was seen; so a
\* printer seen for the first time is reported, and a printer seen as it was
\* seen the last time is not; nothing is emitted for a printer at any other
\* step
C5_EmitsIffChanged ==
    [][\A p \in Printers :
          /\ C5_Checks(p) =>
                 /\ C5_Emits(p) <=> stSeen'[p] # stEmitted[p]
                 /\ C5_Emits(p) => stEmitted'[p] = stSeen'[p]
                 /\ stEmitted[p] = NoStatusInfo => C5_Emits(p)
                 /\ stSeen'[p] = stSeen[p] => ~C5_Emits(p)
          /\ ~C5_Emits(p) => stEmitted'[p] = stEmitted[p]]_vars

\* the cycle has found the last printer as it was last reported and emitted
\* nothing for it, after the grown queue of the first had been reported
C5_Witness ==
    /\ stPc = "sleep"
    /\ stDid = "quiet"
    /\ stSeen[MaxPrinters] = stEmitted[MaxPrinters]
    /\ stEmitted[MaxPrinters].status = "error"
    /\ stEmitted[1].status = "printing"
    /\ stEmitted[1].queue_length > 0

(***************************************************************************)
(* C6 -- the failure counter after a heartbeat attempt                     *)
(***************************************************************************)
\* C6: a heartbeat attempt that succeeded leaves the failure counter at 0 and
\* one that failed leaves it exactly one higher than it was, for the attempts
\* of the loop and of force_heartbeat alike
C6_CounterAfterAttempt ==
    [][\A t \in HbThreads :
          /\ (hbPc[t] = "post" /\ hbPc'[t] = HbAfter(t)) => heartbeat_failures' = 0
          /\ (hbPc[t] = "store" /\ hbPc'[t] = HbAfter(t))
                => heartbeat_failures' = heartbeat_failures + 1]_vars

(***************************************************************************)
(* C7 -- connection_quality of a heartbeat                                 *)
(***************************************************************************)
\* the table of the claim
C7_Table(f) ==
    CASE f = 0 -> 100
      [] f = 1 -> 80
      [] f = 2 -> 60
      [] f >= 3 -> 40

\* the payload thread t hands to send_heartbeat was built in this step
C7_Built(t) == hbPc[t] = "collect" /\ hbPc'[t] = "post"

C8_NeverGivesUp ==
    /\ \A t \in WsLoops :
          (wsPc[t] = "backoff") ~> (wsPc[t] = "token" \/ ~wsRunning)
    /\ <>[](wsRunning /\ tokenAvail /\ netUp) => []<>ConnectionOpen

\* a loop whose connection attempt has failed sleeps the backoff while the
\* channel is running and the network is down
C8_Witness ==
    \E t \in WsLoops :
        /\ wsPc[t] = "backoff"
        /\ wsRunning
        /\ ~netUp
        /\ access_token # "None"

(***************************************************************************)
(* C9 -- no attempts after stop()                                          *)
(***************************************************************************)
\* C9: once stop() has cleared the running flag, no loop asks for a token and
\* no loop attempts a connection, wherever in the loop the stop() came
C9_NoAttemptAfterStop ==
    [][\A t \in WsLoops :
          ~wsRunning =>
              /\ ~(wsPc[t] = "token" /\ wsPc'[t] # "token")
              /\ ~(wsPc[t] = "connect" /\ wsPc'[t] # "connect")]_vars

(***************************************************************************)
(* C10 -- a send without an open connection is dropped                     *)
(***************************************************************************)
\* C10: a message handed to send_message_sync() while no connection is open
\* never reaches the cloud, in no later state either, and no message reaches
\* the cloud more than once
C10_DroppedNeverDelivered ==
    \A m \in Msgs :
        /\ cloudGot[m] <= 1
        /\ (msgFate[m].did # "unsent" /\ ~msgFate[m].open) => cloudGot[m] = 0

\* a message sent while the connection was closed is still undelivered after
\* the channel has reconnected, and a message sent since then was delivered
C10_Witness ==
    \E m, n \in Msgs :
        /\ msgFate[m].did = "raised"
        /\ ~msgFate[m].open
        /\ cloudGot[m] = 0
        /\ ConnectionOpen
        /\ websocket \in WsLoops
        /\ cloudGot[n] = 1
(***************************************************************************)
(* C2 -- an incomplete print_job message is dropped without a trace        *)
(***************************************************************************)
\* C2: for a print_job message in which job_id, printer_name or file_url is
\* absent or empty, handle_print_job downloads nothing, submits nothing,
\* starts no monitor and hands no job_update to the channel, ever
C2_IncompleteJobDoesNothing ==
    \A j \in Jobs :
        (jobMsg[j].data # "none"
            /\ ~(jobMsg[j].job_id /\ jobMsg[j].printer_name /\ jobMsg[j].file_url))
        => /\ jobLog[j].downloads = 0
           /\ jobLog[j].submits = 0
           /\ jobLog[j].monitors = 0
           /\ jobUpdates[j] = <<>>
           /\ jobPc[j] = "done"

\* the handler has returned for a message that has a job_id and a
\* printer_name but no file_url, while the channel is connected
C2_Witness ==
    \E j \in Jobs :
        /\ jobPc[j] = "done"
        /\ jobMsg[j].data = "dict"
        /\ jobMsg[j].job_id
        /\ jobMsg[j].printer_name
        /\ ~jobMsg[j].file_url
        /\ ConnectionOpen

(***************************************************************************)
(* C3 -- a failed download                                                 *)
(***************************************************************************)
\* the job_update that reports the failed download
C3_DownloadFailedUpdate(u) ==
    /\ u.status = "failed"
    /\ u.progress = 0
    /\ u.error = "download_failed"

\* C3: when the download of a job's file has failed, exactly one job_update
\* was handed to the channel for the job, with status failed, progress 0 and
\* the download-failed reason, and there was no submission and no monitor;
\* and a handler that submits has downloaded the file
C3_DownloadFailureReportedOnce ==
    \A j \in Jobs :
        /\ jobLog[j].end = "download_failed" =>
               /\ Len(jobUpdates[j]) = 1
               /\ C3_DownloadFailedUpdate(jobUpdates[j][1])
               /\ jobLog[j].submits = 0
               /\ jobLog[j].monitors = 0
               /\ jobPc[j] = "done"
        /\ jobPc[j] = "submit" => jobLog[j].end = "none"

\* a download has failed and its report was written to the open connection
C3_Witness ==
    \E j \in Jobs :
        /\ jobLog[j].end = "download_failed"
        /\ jobLog[j].downloads = 1
        /\ Len(jobUpdates[j]) = 1
        /\ jobUpdates[j][1].did = "written"

(***************************************************************************)
(* C4 -- the completion monitor                                            *)
(***************************************************************************)
\* the job_update that reports the completion
C4_CompletedUpdate(u) ==
    /\ u.status = "completed"
    /\ u.progress = 100

\* job j's monitor asks for the job status in this step
C4_Polls(j) ==
    /\ jobPc[j] = "poll"
    /\ \/ waited_time'[j] = waited_time[j] + check_interval
       \/ jobLog'[j].end \in {"terminal", "poll_raised"}

\* C4: the monitor of a job submitted with a local job id asks for the job
\* status at most 60 times, 10 seconds apart and never past 600 seconds (a
\* query is the 60th at the latest: 590 seconds at most were waited before
\* its sleep).  It always comes to its end: a running monitor can always take
\* its next step, and each step either ends it or adds 10 to a waited_time
\* that never exceeds 600.  At its end exactly one job_update, completed with
\* progress 100, was handed to the channel, also when all the queries found
\* the job still pending and the ceiling was reached
C4_MonitorTerminates ==
    /\ [](\A j \in Jobs :
            /\ waited_time[j] \in {10 * n : n \in 0..60}
            /\ jobPc[j] = "poll" => ENABLED JobStep(j)
            /\ jobLog[j].end \in {"terminal", "poll_raised", "ceiling"} =>
                   /\ jobPc[j] = "done"
                   /\ Len(jobUpdates[j]) = 1
                   /\ C4_CompletedUpdate(jobUpdates[j][1]))
    /\ [][\A j \in Jobs :
            /\ C4_Polls(j) => waited_time[j] <= 590
            /\ jobLog'[j].end = "ceiling" /\ jobLog[j].end = "none"
                   => waited_time[j] = 600
            /\ (jobPc[j] = "poll" /\ JobStep(j)) =>
                   \/ waited_time'[j] = waited_time[j] + 10
                   \/ /\ jobPc'[j] = "done"
                      /\ Len(jobUpdates'[j]) = 1
                      /\ C4_CompletedUpdate(jobUpdates'[j][1])]_vars

\* a monitor has ended at the ceiling after queries that all found the job
\* pending, and its report was written to the open connection
C4_Witness ==
    \E j \in Jobs :
        /\ jobLog[j].end = "ceiling"
        /\ jobPc[j] = "done"
        /\ Len(jobUpdates[j]) = 1
        /\ jobUpdates[j][1].did = "written"

(***************************************************************************)
(* C11 -- what the receive loop does with each inbound frame               *)
(***************************************************************************)
\* loop t takes a frame off its connection
C11_Receives(t) == rxCount' = rxCount + 1 /\ rxDid'[t] # rxDid[t]

\* the handler loop t awaits raises
C11_HandlerRaises(t) ==
    /\ rxHandling[t] # NoFrame
    /\ rxHandling'[t] = NoFrame
    /\ rxDid'[t].end = "raised"

\* the frame is JSON, an object, and its type has a registered handler
C11_HasHandler(frame) ==
    frame.json = "object" /\ message_type_of(frame) \in message_handlers

\* the connection of loop t stays open and the loop is back at "async for"
C11_GoesOn(t) ==
    /\ wsPc'[t] = "listen"
    /\ websocket' = websocket
    /\ rxHandling'[t] = NoFrame

\* C11: for each inbound frame the channel invokes the handler registered for
\* the frame's type and no other; a frame that is not valid JSON, a frame
\* whose type has no registered handler and a frame whose handler raises are
\* each dropped with no other handler invoked and the connection left open,
\* the receive loop being ready for the next frame.
C11_FrameDispatch ==
    [][\A t \in WsLoops :
        /\ C11_Receives(t) =>
            LET frame == rxDid'[t].frame IN
            /\ C11_HasHandler(frame) =>
                /\ rxDid'[t].invoked = {message_type_of(frame)}
                /\ wsPc'[t] = "listen" /\ websocket' = websocket
            /\ ~C11_HasHandler(frame) =>
                /\ rxDid'[t].invoked = {}
                /\ C11_GoesOn(t)
        /\ C11_HandlerRaises(t) =>
            /\ rxDid'[t].invoked = rxDid[t].invoked
            /\ C11_GoesOn(t)]_vars

\* each of the three dropped kinds has happened on a connection that is still
\* open: here the last, a handler that raised, after a frame of loop 1
C11_Witness ==
    /\ rxDid[1].end = "raised"
    /\ rxDid[1].invoked = {"print_job"}
    /\ wsPc[1] = "listen"
    /\ rxCount = MaxFrames

C11_WitnessBadJson ==
    /\ rxDid[1].end = "bad_json" /\ wsPc[1] = "listen" /\ message_handlers # {}

C11_WitnessNoHandler ==
    /\ rxDid[1].end = "no_handler" /\ wsPc[1] = "listen" /\ message_handlers # {}

(***************************************************************************)
(* C12 -- a running handler and the receive loop                           *)
(***************************************************************************)
\* C12: a handler invocation does not block the receive loop: while a handler
\* of loop t has not returned, the loop on its open connection can still take
\* the next frame (and so dispatch its handler next to the running one).
C12_HandlerDoesNotBlock ==
    \A t \in WsLoops :
        (wsPc[t] = "listen" /\ rxCount < MaxFrames) => ENABLED WsReceive(t)

\* two handlers of one loop never run at the same time: a frame is taken only
\* when no handler is awaited
C12_OneHandlerAtATime ==
    [][\A t \in WsLoops : C11_Receives(t) => rxHandling[t] = NoFrame]_vars

\* a handler is running while a further frame could arrive
C12_HandlerRunning ==
    \E t \in WsLoops :
        wsPc[t] = "listen" /\ rxHandling[t] # NoFrame /\ rxCount < MaxFrames

(***************************************************************************)
(* C13 -- concurrent calls of get_access_token()                           *)
(***************************************************************************)
\* the callers whose token request is under way
C13_Refreshing == {c \in AuthCallers : authPc[c] \in {"post", "assigned"}}

\* C13: concurrent get_access_token() calls that find the token absent or
\* inside the margin do not race: at most one token request is under way at
\* a time, and whenever no refresh is between its two assignments the cached
\* access_token and token_expires_at are from the same response.
C13_RefreshDoesNotRace ==
    /\ Cardinality(C13_Refreshing) <= 1
    /\ (\A c \in AuthCallers : authPc[c] # "assigned") => sameResponse

\* the two halves of C13 on their own
C13_OneRequestAtATime == Cardinality(C13_Refreshing) <= 1
C13_SameResponse ==
    (\A c \in AuthCallers : authPc[c] = "idle") => sameResponse

(***************************************************************************)
(* C14 -- a failed token request                                           *)
(***************************************************************************)
\* the token request of caller c fails: a status other than 200 or an exception
C14_RequestFails(c) == authPc[c] = "post" /\ authRet'[c] = FailedRet

\* caller c, whose last call failed, calls again
C14_CallsAgain(c) ==
    /\ authPc[c] = "idle"
    /\ authRet[c] = FailedRet
    /\ authRet'[c] # FailedRet

\* C14: when the token request fails, get_access_token() returns no token
\* after that one request, with no further request in the call, and the next
\* call, finding the cache as invalid as before, issues a new request.
C14_FailedRequestEndsCall ==
    [][\A c \in AuthCallers :
        /\ C14_RequestFails(c) =>
            /\ authPc'[c] = "idle"
            /\ authRequests' = authRequests
        /\ (C14_CallsAgain(c)
              /\ ~is_token_valid(access_token, token_expires_at, now)) =>
            /\ authPc'[c] = "post"
            /\ authRequests' = authRequests + 1]_vars

\* caller 1 is in its second request after its first one failed, no response
\* having brought a token yet
C14_Witness ==
    /\ authPc[1] = "post"
    /\ authRequests = 2
    /\ authPc[2] = "idle" /\ authRet[2] = NoRet
    /\ access_token = "None" /\ token_expires_at = NoExpiry /\ sameResponse

(***************************************************************************)
(* C15 -- when get_access_token() issues a token request                   *)
(***************************************************************************)
\* no token or no expiry is cached, or now is within 5 minutes of expires_at
C15_AbsentOrInMargin ==
    \/ access_token = "None"
    \/ token_expires_at = NoExpiry
    \/ token_expires_at - now <= RefreshMarginSeconds

\* caller c calls get_access_token()
C15_Calls(c) ==
    /\ authPc[c] = "idle"
    /\ <<authPc[c], authRet[c]>>' # <<authPc[c], authRet[c]>>

\* C15 (as amended): a call issues a token request, and only one, if and only
\* if at its check the cached token is absent or now is within 5 minutes of
\* expires_at; otherwise it returns the cached token with no request.
C15_RequestIffInvalid ==
    [][\A c \in AuthCallers : C15_Calls(c) =>
        IF C15_AbsentOrInMargin
        THEN /\ authRequests' = authRequests + 1
             /\ authPc'[c] = "post"
        ELSE /\ authRequests' = authRequests
             /\ authPc'[c] = "idle"
             /\ authRet'[c].tok = access_token
             /\ authRet'[c].how = "cache"]_vars

\* C15 (as stated): over the calls made after the clock has crossed the
\* margin once, no more than one token request is made.
C15_OneRequestPerCrossing == crossed => authRequests <= 1

\* after a crossing a call has made a request and a later call found a valid
\* token in the cache
C15_Witness ==
    /\ crossed
    /\ authRequests = 1
    /\ \E c \in AuthCallers :
        /\ authRet[c].how = "cache"
        /\ authRet[c].left = token_expires_at - now
    /\ is_token_valid(access_token, token_expires_at, now)

(***************************************************************************)
(* C16 -- the order of the steps of start()                                *)
(***************************************************************************)
\* the order the specification gives: node registration, HeartbeatMonitor,
\* managed devices, RealtimeChannel created, print_job handler registered,
\* RealtimeChannel started, StatusReporter
C16_Order ==
    <<"register", "heartbeat", "printers", "channel_create", "handler",
      "channel_start", "reporter">>

C16_Rank(step) == CHOOSE i \in 1..Len(C16_Order) : C16_Order[i] = step

\* C16: start() performs its steps in the order node registration (if
\* enabled), HeartbeatMonitor started, managed devices registered (if
\* enabled), RealtimeChannel created and the print_job handler registered
\* before it is started, StatusReporter started; start() is at one step at a
\* time, so each step begins after the one before has finished, and the
\* channel runs only with its handler registered.
C16_StartInOrder ==
    /\ \A i, j \in 1..Len(startLog) :
          i < j => C16_Rank(startLog[i]) < C16_Rank(startLog[j])
    /\ csPc \in {"new", "idle", "heartbeat", "printers", "websocket", "reporter"}
    /\ (websocket_client /\ printer_manager) => "print_job" \in message_handlers

\* a start() has gone through all of its steps
C16_Witness ==
    /\ startLog = C16_Order
    /\ startRet.success = "true"
    /\ csPc = "idle"

(***************************************************************************)
(* C17 -- start() after a failed node registration                         *)
(***************************************************************************)
\* start() has returned the failure of the node registration
C17_RegistrationFailed ==
    /\ startRet.success = "false"
    /\ Len(startLog) >= 1
    /\ startLog[1] = "register"

\* C17: when node registration is enabled and fails, start() returns failure
\* having performed no further step: it has started no HeartbeatMonitor, no
\* RealtimeChannel and no StatusReporter.
C17_FailedRegistrationStartsNothing ==
    /\ [](C17_RegistrationFailed => (csPc = "idle" /\ startLog = <<"register">>))
    /\ [][(csPc = "idle" /\ csPc' = "idle" /\ startLog' = <<"register">>
              /\ lastOp' = "start")
            => UNCHANGED <<hbVars, wsClientVars, stVars, websocket_client>>]_vars

\* the first start() of an enabled service has failed at the registration
C17_Witness ==
    /\ C17_RegistrationFailed
    /\ lastOp = "start"
    /\ enabled
    /\ ~hbRunning /\ ~wsRunning /\ ~stRunning
    /\ stopRet = "none"

(***************************************************************************)
(* C18 -- the node id in the result of start()                             *)
(***************************************************************************)
\* C18: whenever start() returns success its result carries the node id
\* assigned at registration, for every setting of the registration options.
C18_SuccessCarriesNodeId ==
    startRet.success = "true" => startRet.node_id \in NodeIds

\* with the registration performed and a node id assigned
C18_SuccessAfterRegistration ==
    (startRet.success = "true" /\ Len(startLog) >= 1 /\ startLog[1] = "register"
        /\ node_id # "None")
      => startRet.node_id = node_id

(***************************************************************************)
(* C19 -- the order of stop()                                              *)
(***************************************************************************)
\* the reverse of the start order
C19_Order == <<"reporter", "channel", "heartbeat">>

C19_Rank(c) == CHOOSE i \in 1..Len(C19_Order) : C19_Order[i] = c

\* C19: stop() tears the components down in the reverse of the start order:
\* StatusReporter first, then RealtimeChannel, then HeartbeatMonitor.
C19_StopInReverseOrder ==
    \A i, j \in 1..Len(stopLog) :
        i < j => C19_Rank(stopLog[i]) < C19_Rank(stopLog[j])

\* the order of the calls in stop()
C19_CodeOrder == <<"channel", "heartbeat", "reporter">>

\* stop() stops the channel, then the heartbeat, then the reporter, leaving
\* out the components that are not there
C19_StopInCodeOrder ==
    \E keep \in SUBSET (1..Len(C19_CodeOrder)) :
        /\ Len(stopLog) = Cardinality(keep)
        /\ \A i \in 1..Len(stopLog) :
              \E k \in keep :
                 /\ stopLog[i] = C19_CodeOrder[k]
                 /\ Cardinality({m \in keep : m <= k}) = i

(***************************************************************************)
(* C20 -- stop() twice, and stop() after a start() that failed             *)
(***************************************************************************)
\* everything a stop() can change
C20_State ==
    <<hbVars, wsClientVars, stVars, csFrame, node_id, csOthers>>

\* C20: stop() is idempotent and safe after a partial start: in the state a
\* stop() of HeartbeatMonitor, RealtimeChannel, StatusReporter or of the
\* orchestrator has left, a second stop() changes nothing, and the
\* orchestrator's stop() ends without error whatever start() has done before.
C20_StopIdempotent ==
    /\ stopRet # "raised"
    /\ csPc # "new" => ENABLED CsStop
    /\ lastOp = "cs_stop" => ~ENABLED (CsStop /\ C20_State' # C20_State)
    /\ lastOp \in {"hb_stop", "ws_stop", "st_stop"} =>
          ~ENABLED (/\ CsComponentStop
                    /\ UNCHANGED <<csFrame, node_id, csOthers>>
                    /\ lastOp' = lastOp
                    /\ C20_State' # C20_State)

\* stop() has ended after a start() that failed at the registration
C20_Witness ==
    /\ lastOp = "cs_stop"
    /\ stopRet = "done"
    /\ C17_RegistrationFailed
    /\ stopLog = <<"heartbeat">>

(***************************************************************************)
(* C21 -- the loop after stop()                                            *)
(***************************************************************************)
\* C21: after stop() has been called the reconnect/receive loop eventually
\* exits, wherever it is at the time: in the backoff, obtaining a token,
\* connecting, or connected and receiving (a start() that sets the flag
\* again in the meantime lifts the obligation).
C21_LoopExitsAfterStop ==
    \A t \in WsLoops :
        (~wsRunning /\ wsPc[t] # "none") ~> (wsPc[t] = "none" \/ wsRunning)

\* the loop is not connected, or has lost its connection
C21_Unconnected(t) == wsPc[t] \in {"check", "backoff"}

\* a stopped loop that is not connected ends at the next check of the flag
C21_UnconnectedLoopExits ==
    \A t \in WsLoops :
        (~wsRunning /\ C21_Unconnected(t)) ~> (wsPc[t] = "none" \/ wsRunning)

(***************************************************************************)
(* C22 -- the phases of a job                                              *)
(***************************************************************************)
\* how far job j has come: received and downloading, downloaded (about to be
\* submitted), submitted and monitored, ended
C22_Phase(pc) ==
    CASE pc = "none" -> 0
      [] pc = "download" -> 1
      [] pc = "response" -> 2
      [] pc = "submit" -> 3
      [] pc \in {"poll", "delay"} -> 4
      [] pc = "done" -> 5

\* the message of job j carries job_id, printer_name and file_url
C22_IsJob(j) == jobMsg[j].data = "dict" /\ all_present(jobMsg[j])

\* C22: a job's phase only moves forward along received, downloading,
\* downloaded, submitted, monitoring and the job ends in exactly one of
\* completed or failed: no phase is revisited, completed is reported only
\* for a job that was downloaded and whose submission succeeded (its monitor
\* ran), and failed only for a job whose download or submission failed.
C22_PhasesOnlyForward ==
    /\ [](\A j \in Jobs :
            /\ Len(jobUpdates[j]) <= 1
            /\ (jobPc[j] = "done" /\ C22_IsJob(j)) => Len(jobUpdates[j]) = 1
            /\ \A i \in 1..Len(jobUpdates[j]) :
                 /\ jobPc[j] = "done"
                 /\ jobUpdates[j][i].status \in {"completed", "failed"}
                 /\ jobUpdates[j][i].status = "completed" =>
                       /\ jobLog[j].downloads = 1
                       /\ jobLog[j].submits = 1
                       /\ jobLog[j].monitors = 1
                       /\ jobLog[j].end \in
                            {"nohandle", "terminal", "poll_raised", "ceiling"}
                 /\ jobUpdates[j][i].status = "failed" =>
                       /\ jobLog[j].monitors = 0
                       /\ jobLog[j].end \in
                            {"download_failed", "submit_failed",
                             "submit_failed_nomsg", "submit_raised"}
                       /\ jobLog[j].end = "download_failed" <=>
                              jobLog[j].submits = 0)
    /\ [][\A j \in Jobs :
            /\ C22_Phase(jobPc'[j]) >= C22_Phase(jobPc[j])
            /\ C22_Phase(jobPc'[j]) = C22_Phase(jobPc[j]) => jobPc'[j] = jobPc[j]
            /\ jobLog[j].end # "none" => jobLog'[j].end = jobLog[j].end]_vars

\* a job went through every phase and ended completed
C22_Witness ==
    \E j \in Jobs :
        /\ jobPc[j] = "done"
        /\ jobLog[j].end = "terminal"
        /\ jobLog[j].downloads = 1
        /\ jobLog[j].submits = 1
        /\ jobLog[j].monitors = 1
        /\ Len(jobUpdates[j]) = 1
        /\ jobUpdates[j][1].status = "completed"

(***************************************************************************)
(* C23 -- a submission the backend rejects                                 *)
(***************************************************************************)
\* C23: when the backend rejects the submission of a downloaded file, the
\* pipeline hands over one job_update for the job, with status failed and
\* the backend's error message, starts no completion monitor and never
\* sends a completed update for the job.
C23_RejectedSubmissionReported ==
    /\ [](\A j \in Jobs :
            jobLog[j].end = "submit_failed" =>
               /\ jobPc[j] = "done"
               /\ jobLog[j].downloads = 1
               /\ jobLog[j].monitors = 0
               /\ Len(jobUpdates[j]) = 1
               /\ jobUpdates[j][1].status = "failed"
               /\ jobUpdates[j][1].progress = 0
               /\ jobUpdates[j][1].error = "backend_message")
    /\ [][\A j \in Jobs :
            jobLog[j].end = "submit_failed" =>
               UNCHANGED <<jobPc[j], jobLog[j], jobUpdates[j]>>]_vars

\* a rejected submission was reported over the open connection
C23_Witness ==
    \E j \in Jobs :
        /\ jobLog[j].end = "submit_failed"
        /\ jobLog[j].submits = 1
        /\ jobUpdates[j][1].did = "written"


(***************************************************************************)
(* C24 -- the bearer token and the download request                        *)
(***************************************************************************)
\* C24: the bearer token is never attached to a download whose URL carries
\* both X-Amz-Algorithm and X-Amz-Signature, and the download of every other
\* URL carries the bearer Authorization header
C24_BearerExactlyWhenNotPresigned ==
    \A j \in Jobs :
        LET r == jobLog[j].request IN
        r.sent => (r.authorization <=> ~(r.algorithm /\ r.signature))

\* C24 as the code has it: never on a URL with both markers; on any other URL
\* whenever a valid token is cached or the auth server answers the refresh;
\* a request is in flight exactly between the two steps of the download
C24_BearerWhenTokenObtainable ==
    /\ [](\A j \in Jobs : jobLog[j].request.sent <=> jobPc[j] = "response")
    /\ [][\A j \in Jobs :
            jobLog'[j].request # jobLog[j].request /\ jobLog'[j].request.sent =>
                LET r == jobLog'[j].request
                    obtainable ==
                        \/ is_token_valid(access_token, token_expires_at, now)
                        \/ tokenAvail
                IN  IF r.algorithm /\ r.signature
                    THEN ~r.authorization
                    ELSE obtainable => r.authorization]_vars

\* a URL with one marker only is being fetched with the bearer header
C24_Witness ==
    \E j \in Jobs :
        /\ jobLog[j].request.sent
        /\ jobLog[j].request.algorithm /\ ~jobLog[j].request.signature
        /\ jobLog[j].request.authorization

\* a URL that is not pre-signed is being fetched without the bearer header
C24_UnsignedWithoutBearer ==
    \E j \in Jobs :
        /\ jobLog[j].request.sent
        /\ ~(jobLog[j].request.algorithm /\ jobLog[j].request.signature)
        /\ ~jobLog[j].request.authorization

(***************************************************************************)
(* C25 -- get_auth_headers()                                               *)
(***************************************************************************)
\* the download of job j is at its call of get_auth_headers()
C25_Called(j) ==
    /\ jobLog'[j].request # jobLog[j].request
    /\ jobLog'[j].request.sent
    /\ ~(jobLog'[j].request.algorithm /\ jobLog'[j].request.signature)

\* C25: get_auth_headers() returns a header set that has Authorization:
\* Bearer <token> exactly when get_access_token() yields a token and has no
\* Authorization header when there is none; it returns in either case
C25_AuthorizationIffToken ==
    /\ [](\A j \in Jobs : jobPc[j] = "download" => ENABLED JobRequest(j))
    /\ [][\A j \in Jobs :
            C25_Called(j) =>
                LET r == jobLog'[j].request IN
                /\ r.token # "None" => r.headers.Authorization = r.token
                /\ r.token = "None" => r.headers.Authorization = NoHeader
                /\ r.headers.ContentType = "application/json"]_vars

\* get_auth_headers() was called when no token could be had, and returned
C25_Witness ==
    \E j \in Jobs :
        /\ jobLog[j].request.sent
        /\ ~jobLog[j].request.algorithm
        /\ jobLog[j].request.token = "None"
        /\ jobLog[j].request.headers.Authorization = NoHeader


(***************************************************************************)
(* C26 -- the statuses the reporter emits                                  *)
(***************************************************************************)
C26_CloudStatuses == {"ready", "printing", "error", "offline"}

\* the reporter has asked for the status of printer p
C26_Checks(p) == stPc = "cycle" /\ stPos = p /\ stPos' = p + 1 /\ stDid' # "skipped"

\* C26: every status the reporter emits is one of ready, printing, error and
\* offline; each backend status is mapped through the table, and a status
\* that is not in the table is reported as offline
C26_EmittedStatusesFromTable ==
    /\ [](\A p \in Printers :
            /\ stEmitted[p] # NoStatusInfo => stEmitted[p].status \in C26_CloudStatuses
            /\ last_status[p] # NoStatusInfo =>
                  last_status[p].status \in C26_CloudStatuses)
    /\ [][\A p \in Printers :
            C26_Checks(p) =>
                /\ current_status' \in {"idle", "zh_online", "zh_idle"}
                      => stSeen'[p].status = "ready"
                /\ current_status' \in {"processing", "zh_printing"}
                      => stSeen'[p].status = "printing"
                /\ current_status' \in {"stopped", "zh_stopped", "zh_disabled"}
                      => stSeen'[p].status = "error"
                /\ current_status' \in {"unknown", "zh_offline", "zh_unknown"}
                      => stSeen'[p].status = "offline"
                /\ current_status' = "other" => stSeen'[p].status = "offline"
                /\ stDid' = "emitted" => stEmitted'[p].status = stSeen'[p].status]_vars

\* a status that is no key of the table was emitted as offline
C26_Witness ==
    /\ stDid = "emitted"
    /\ current_status = "other"
    /\ stPos >= 2
    /\ stEmitted[stPos - 1].status = "offline"


(***************************************************************************)
(* C27 -- the status of a heartbeat                                        *)
(***************************************************************************)
\* busy above 90, else moderate above 70, on any of the three figures
C27_StatusOf(p) ==
    LET figures == {p.cpu_percent, p.memory_percent, p.disk_percent}
    IN  IF \E x \in figures : x > 90 THEN "busy"
        ELSE IF \E x \in figures : x > 70 THEN "moderate"
        ELSE "online"

\* C27: the heartbeat status is busy when any of the CPU, memory or disk
\* percentages is above 90, otherwise moderate when any of the three is above
\* 70, otherwise online; the status is always one of online, moderate, busy
C27_StatusByThresholds ==
    \A t \in HbThreads :
        hbPc[t] = "post" =>
            /\ hbPayload[t].status \in {"online", "moderate", "busy"}
            /\ hbPayload[t].status = C27_StatusOf(hbPayload[t])

\* the part that fails on every payload built from the three figures: a disk
\* above 70 and not above 90, with CPU and memory not above 70, gives moderate
C27_DiskAloneGivesModerate ==
    \A t \in HbThreads :
        (/\ hbPc[t] = "post"
         /\ hbPayload[t].disk_percent > 70
         /\ hbPayload[t].disk_percent <= 90
         /\ hbPayload[t].cpu_percent <= 70
         /\ hbPayload[t].memory_percent <= 70)
        => hbPayload[t].status = "moderate"


(***************************************************************************)
(* C28 -- heartbeat failures are a signal only                             *)
(***************************************************************************)
\* thread t takes a step of the heartbeat loop or of force_heartbeat
C28_Step(t) ==
    /\ hbPc[t] \in {"check", "collect", "post", "store"}
    /\ hbPc'[t] # hbPc[t]

\* C28: when the failure counter reaches or exceeds max_failures the heartbeat
\* service changes nothing but its own counter: registration state, node id
\* and the realtime channel stay as they are and neither a registration nor a
\* reconnection is started; get_status() shows the counter
C28_FailuresAreSignalOnly ==
    /\ [](get_status.failures = heartbeat_failures /\ get_status.max_failures = 3)
    /\ [][\A t \in HbThreads :
            (/\ C28_Step(t)
             /\ \/ heartbeat_failures >= max_failures
                \/ heartbeat_failures' >= max_failures)
            => /\ UNCHANGED <<node_id, registered, websocket_client, wsRunning,
                              websocket, wsPc, csPc, hbRunning>>
               /\ get_status'.failures = heartbeat_failures'
               /\ heartbeat_failures' >= max_failures =>
                     last_heartbeat_time' = last_heartbeat_time]_vars

\* the loop of a registered node has counted max_failures failures and is back
\* at the head of the loop
C28_Witness ==
    /\ heartbeat_failures >= max_failures
    /\ get_status.failures >= get_status.max_failures
    /\ node_id # "None"
    /\ hbRunning
    /\ \E t \in HbLoops : hbPc[t] = "check"


(***************************************************************************)
(* C29 -- no failure ends a background loop                                *)
(***************************************************************************)
\* loop thread t of the heartbeat service can take a step; at the payload the
\* model stops it once the counter has come to MaxHbCount
C29_HbGoesOn(t) ==
    \/ ENABLED HbLoopCheck(t)
    \/ ENABLED HbCollect(t)
    \/ ENABLED HbPost(t)
    \/ ENABLED HbStore(t)
    \/ hbPc[t] = "collect"

C29_StGoesOn ==
    \/ ENABLED StLoopCheck
    \/ ENABLED StWake
    \/ \E p \in Printers : ENABLED StCheckPrinter(p)

\* C29: no failure makes a background loop exit before an explicit stop.  A
\* heartbeat loop leaves only at the head of the loop and with the flag
\* cleared; after a failed heartbeat, whatever the counter, it is back at the
\* head of the loop and goes on to the next attempt while the flag is set.
\* The reporter's loop leaves only at the head of the loop with the flag
\* cleared; after a failed cycle it sleeps and checks again.  Neither loop
\* is ever without a next step
C29_LoopsOutliveFailures ==
    /\ [](/\ \A t \in HbLoops : hbPc[t] # "none" => C29_HbGoesOn(t)
          /\ stPc \notin {"new", "exit"} => C29_StGoesOn)
    /\ [][/\ \A t \in HbLoops :
              /\ (hbPc[t] # "none" /\ hbPc'[t] = "none")
                    => (hbPc[t] = "check" /\ ~hbRunning)
              /\ (hbPc[t] = "check" /\ hbRunning /\ hbPc'[t] # hbPc[t])
                    => hbPc'[t] = "collect"
              /\ (hbPc[t] = "store" /\ hbPc'[t] # hbPc[t])
                    => (hbPc'[t] = "check" /\ hbRunning' = hbRunning)
          /\ (stPc # "exit" /\ stPc' = "exit") => (stPc = "check" /\ ~stRunning)
          /\ (stPc = "check" /\ stRunning /\ stPc' # stPc) => stPc' = "cycle"
          /\ stDid' = "raised" /\ stDid # "raised" => stPc' = "sleep"
          /\ (stPc = "sleep" /\ stPc' # stPc) => stPc' = "check"]_vars

\* a heartbeat loop is at its next attempt after max_failures failures in a
\* row
C29_Witness ==
    /\ hbRunning
    /\ heartbeat_failures >= max_failures
    /\ \E t \in HbLoops : hbPc[t] = "post"

\* the reporter's loop is in a cycle again after a cycle that failed
C29_WitnessReporter ==
    /\ stRunning
    /\ stDid = "raised"
    /\ stPc = "cycle"


(***************************************************************************)
(* C30 -- the node id after the registration                               *)
(***************************************************************************)
\* C30: once a registration has succeeded and a node_id has been assigned, no
\* later operation (a further start(), stop(), a restart, heartbeats, job
\* handling) changes that node_id
C30_NodeIdNeverChanges ==
    [][node_id # "None" => node_id' = node_id]_vars

\* what does hold: only the registration step of start() writes node_id
C30_OnlyRegistrationWritesNodeId ==
    [][node_id' # node_id => (csPc = "idle" /\ enabled /\ lastOp' = "start"
                              /\ registered')]_vars


(***************************************************************************)
(* C31 -- stop() and the completion monitors                               *)
(***************************************************************************)
\* the monitor thread of job j is alive
C31_Monitoring(j) == jobPc[j] \in {"poll", "delay"}

\* C31: stop() on the channel does not cancel the completion monitors of jobs
\* already dispatched: stop() leaves every job as it is, a monitor has its
\* next step after stop() as before it, and the monitor that ends after
\* stop() still hands its job_update to the channel
C31_MonitorsOutliveStop ==
    /\ [](\A j \in Jobs :
            C31_Monitoring(j) =>
                \/ ENABLED JobDelay(j)
                \/ ENABLED JobPoll(j)
                \/ ENABLED JobCeiling(j))
    /\ [][/\ wsRunning' # wsRunning => UNCHANGED jobVars
          /\ \A j \in Jobs :
                (C31_Monitoring(j) /\ jobPc'[j] = "done")
                => /\ Len(jobUpdates'[j]) = Len(jobUpdates[j]) + 1
                   /\ jobUpdates'[j][Len(jobUpdates'[j])].running = wsRunning]_vars

\* a monitor has reported completed after stop() had cleared the flag
C31_Witness ==
    \E j \in Jobs :
        /\ jobPc[j] = "done"
        /\ jobLog[j].monitors = 1
        /\ Len(jobUpdates[j]) = 1
        /\ jobUpdates[j][1].status = "completed"
        /\ ~jobUpdates[j][1].running


(***************************************************************************)
(* C32 -- the polls of the completion monitor                              *)
(***************************************************************************)
\* the monitor of job j asks the backend for the job in this step
C32_PollsNow(j) ==
    /\ jobPc[j] = "poll"
    /\ waited_time[j] < max_wait_time
    /\ <<jobPc[j], waited_time[j], jobLog[j]>>' # <<jobPc[j], waited_time[j], jobLog[j]>>

\* C32: the monitor reports success at the first poll in which the backend
\* reports the job absent from its queue or completed, and polls no more for
\* that job; while the backend reports the job present and not completed no
\* job_update is sent before the ceiling of 600 seconds
C32_SuccessAtFirstFinishedPoll ==
    /\ [](\A j \in Jobs :
            /\ jobPc[j] = "poll" =>
                  /\ jobLog[j].polled \in {"none", "pending"}
                  /\ jobUpdates[j] = <<>>
                  /\ waited_time[j] <= max_wait_time
            /\ jobLog[j].polled \in {"gone", "completed"} =>
                  /\ jobPc[j] = "done"
                  /\ ~ENABLED JobPoll(j)
                  /\ Len(jobUpdates[j]) = 1
                  /\ jobUpdates[j][1].status = "completed")
    /\ [][\A j \in Jobs :
            C32_PollsNow(j) =>
                /\ jobLog'[j].polled \in {"gone", "completed"} =>
                      /\ jobPc'[j] = "done"
                      /\ Len(jobUpdates'[j]) = 1
                /\ jobLog'[j].polled = "pending" =>
                      /\ jobPc'[j] = "poll"
                      /\ jobUpdates'[j] = <<>>
                      /\ waited_time'[j] = waited_time[j] + check_interval]_vars

\* the backend has reported the job, still in its queue, as completed, and the
\* monitor has reported success and returned
C32_Witness ==
    \E j \in Jobs :
        /\ jobLog[j].polled = "completed"
        /\ jobPc[j] = "done"
        /\ jobUpdates[j][1].status = "completed"


(***************************************************************************)
(* C33 -- what is reported once the submission has succeeded               *)
(***************************************************************************)
\* C33: once the submission of a job has succeeded, every job_update handed
\* to the channel for it has status completed; a status query that raises
\* and a submission without a local job id both end in one completed report,
\* never in a failed one and never in none
C33_OnlyCompletedAfterSubmission ==
    \A j \in Jobs :
        jobLog[j].monitors > 0 =>
            /\ \A i \in 1..Len(jobUpdates[j]) :
                   jobUpdates[j][i].status = "completed"
            /\ jobPc[j] = "done" => Len(jobUpdates[j]) = 1
            /\ jobPc[j] # "done" => jobUpdates[j] = <<>>
            /\ jobLog[j].end \in {"poll_raised", "nohandle"} =>
                   /\ jobPc[j] = "done"
                   /\ Len(jobUpdates[j]) = 1

\* the status query of a monitor has raised and the job was reported completed
C33_Witness ==
    \E j \in Jobs :
        /\ jobLog[j].end = "poll_raised"
        /\ jobLog[j].polled = "raised"
        /\ Len(jobUpdates[j]) = 1
        /\ jobUpdates[j][1].status = "completed"

\* a job submitted without a local job id was reported completed
C33_WitnessNoHandle ==
    \E j \in Jobs :
        /\ jobLog[j].end = "nohandle"
        /\ Len(jobUpdates[j]) = 1
        /\ jobUpdates[j][1].status = "completed"


(***************************************************************************)
(* C34 -- one terminal job_update for each handled job                     *)
(***************************************************************************)
\* the ways a handling that reports a failure ends, and those of the monitor
C34_FailedEnds ==
    {"download_failed", "submit_failed", "submit_failed_nomsg", "submit_raised"}

C34_CompletedEnds == {"nohandle", "terminal", "poll_raised", "ceiling"}

\* C34: for every print_job message that carries job_id, printer_name and
\* file_url one handling hands exactly one terminal job_update to the
\* channel, on every path: none while the handling is under way, one once it
\* has ended, failed after a failed download, a failed submission or an
\* exception in the handler, completed at every exit of the monitor, and
\* never a second one
C34_ExactlyOneTerminalUpdate ==
    /\ [](\A j \in Jobs :
            (jobMsg[j].data = "dict" /\ all_present(jobMsg[j])) =>
                /\ jobPc[j] # "done" => jobUpdates[j] = <<>>
                /\ jobPc[j] = "done" =>
                      /\ Len(jobUpdates[j]) = 1
                      /\ jobLog[j].end \in C34_FailedEnds \cup C34_CompletedEnds
                      /\ jobUpdates[j][1].status =
                            IF jobLog[j].end \in C34_FailedEnds
                            THEN "failed" ELSE "completed")
    /\ [][\A j \in Jobs :
            /\ Len(jobUpdates'[j]) \in {Len(jobUpdates[j]), Len(jobUpdates[j]) + 1}
            /\ jobUpdates[j] # <<>> => jobUpdates'[j] = jobUpdates[j]]_vars

\* the submission of a job has raised and the handler has reported the job
\* failed, once
C34_Witness ==
    \E j \in Jobs :
        /\ jobLog[j].end = "submit_raised"
        /\ jobPc[j] = "done"
        /\ Len(jobUpdates[j]) = 1
        /\ jobUpdates[j][1].status = "failed"
        /\ jobUpdates[j][1].error = "exception_text"



(***************************************************************************)
(* C35 -- no loop of the service runs on after its stop()                  *)
(***************************************************************************)
\* a loop that CloudService started is alive and its running flag is true
C35_HeartbeatLoopRuns == hbRunning /\ \E t \in HbLoops : hbPc[t] # "none"
C35_ChannelLoopRuns == wsRunning /\ \E t \in WsLoops : wsPc[t] # "none"
C35_ReporterLoopRuns == stRunning /\ stPc \notin {"new", "exit"}

\* C35: whenever stop() of CloudService is the call made last and every
\* start() has returned, no heartbeat loop, channel loop or reporter loop of
\* the service is running with its running flag true, also when the stop()
\* was made while a start() was in progress
C35_NoLoopRunsAfterStop ==
    (lastCall = "stop" /\ csPc = "idle")
        => ~(C35_HeartbeatLoopRuns \/ C35_ChannelLoopRuns \/ C35_ReporterLoopRuns)

\* the same for a stop() made while no start() was in progress: the flags
\* are false from the step of stop() on
C35_NoLoopRunsAfterStopAlone ==
    (lastOp = "cs_stop" /\ csPc = "idle")
        => ~(C35_HeartbeatLoopRuns \/ C35_ChannelLoopRuns \/ C35_ReporterLoopRuns)


(***************************************************************************)
(* C36 -- one background loop per component                                *)
(***************************************************************************)
\* the loop threads of the RealtimeChannel that have not ended
C36_ChannelLoops == {t \in WsLoops : wsPc[t] # "none"}

\* C36: after any sequence of start() and stop() on one component at most one
\* background loop of it is active: with the running flag true (the loops go
\* on) there are never two loop threads, also after a stop() and a start()
\* made while the old loop was still sleeping
C36_AtMostOneLoop == wsRunning => Cardinality(C36_ChannelLoops) <= 1


(***************************************************************************)
(* C37 -- force_heartbeat() next to an iteration of the heartbeat loop     *)
(***************************************************************************)
\* the attempts that have failed and whose "heartbeat_failures += 1" has
\* loaded the counter and not yet stored it
C37_Pending == {t \in HbThreads : hbPc[t] = "store"}

\* C37: when force_heartbeat() runs next to an iteration of the loop no update
\* of the failure counter is lost: an increment that is under way is based on
\* the value the counter holds, so that two attempts that both fail leave the
\* counter exactly 2 higher
C37_NoLostUpdate == \A t \in C37_Pending : hbRead[t] = heartbeat_failures


(***************************************************************************)
(* C38 -- the reporter's cache and what was delivered                      *)
(***************************************************************************)
\* C38: the StatusReporter updates its cache for a printer only when the
\* printer_status message was written to an open connection, so that the
\* cache is the (status, queue_length) delivered last
C38_CacheOnlyWhenWritten ==
    [][\A p \in Printers :
          last_status'[p] # last_status[p] => stSent' = "written"]_vars

\* what does hold: the cache is what was handed to send_printer_status() last
C38_CacheIsLastHandedOver == \A p \in Printers : last_status[p] = stEmitted[p]


(***************************************************************************)
(* C39 -- no dispatch after stop() of the channel                          *)
(***************************************************************************)
\* loop t takes a frame from its connection and hands it to a handler
C39_Dispatches(t) ==
    /\ rxHandling[t] = NoFrame
    /\ rxHandling'[t] # NoFrame
    /\ rxDid'[t].invoked # {}

\* C39: after stop() of the RealtimeChannel no inbound message is dispatched
\* to a handler: a frame (a print_job frame too) that arrives on the
\* connection that is still open is handed to no handler
C39_NoDispatchAfterStop ==
    [][\A t \in WsLoops : C39_Dispatches(t) => wsRunning]_vars

\* what does hold: a loop that has been stopped opens no new connection
C39_NoConnectAfterStop ==
    [][\A t \in WsLoops :
          (wsPc[t] = "check" /\ wsPc'[t] # "check") => (wsRunning \/ wsPc'[t] = "none")]_vars


(***************************************************************************)
(* C40 -- the temporary file of a download                                 *)
(***************************************************************************)
\* job j has its file on disk and has not been reported yet: it is being
\* printed or monitored
C40_InFlight(j) == dlPc[j] = "monitor"

\* C40: the file of a job is stored at a path that no other job in flight
\* uses: two jobs whose URLs end in the same file name, the second downloaded
\* while the first is still printed or monitored, do not write to one file
C40_PathsOfJobsInFlightDiffer ==
    \A j, k \in DlJobs :
        (j # k /\ C40_InFlight(j) /\ C40_InFlight(k)) => dlPath[j] # dlPath[k]

\* what does hold: jobs whose URLs give no usable file name get paths of
\* their own, named after the job_id
C40_FallbackPathsDiffer ==
    \A j, k \in DlJobs :
        (/\ j # k /\ C40_InFlight(j) /\ C40_InFlight(k)
         /\ dlName[j] \notin DottedFileNames /\ dlName[k] \notin DottedFileNames)
            => dlPath[j] # dlPath[k]

====
